---- MODULE Spec2Model ----
(***************************************************************************)
(* Streaming RLE and LZ77 codecs of js-compressor (rle.js, lz.js) and the  *)
(* part of index.js that selects and chains them.  Bytes are naturals in   *)
(* 0..255.  A Transform instance is a record of its fields plus the bytes  *)
(* it has pushed downstream and how its last callback ended.               *)
(***************************************************************************)
EXTENDS Naturals, Sequences, FiniteSets, TLC

\* ------------------------------------------------------------ constants
LZ_MAGIC == 76
RLE_MAGIC == 82
LITERAL_FLAG == 0
MATCH_FLAG == 1
WINDOW_SIZE == 20
MAX_MATCH_LENGTH == 255
MIN_MATCH_LENGTH == 3

\* --------------------------------------------------------------- bounds
\* Inputs are all byte strings over InputBytes of at most MaxLen bytes, and
\* the same strings behind a prefix that fills the window (LZ) or saturates
\* a run (RLE).
MaxLen == 6
\* A chunk boundary may fall anywhere in the last MaxSplit bytes of what is
\* still to be fed, so every partition of a stream of up to MaxSplit + 1
\* bytes occurs, down to one byte per chunk.
MaxSplit == 6
\* Length of the bodies of the arbitrary (possibly malformed) streams given
\* to the decoders.
MaxStream == 5
\* The largest number of pairs of a stream of whole pairs.
MaxPairs == 3
\* Capacity of the staging buffers of rle.js, scaled down from 65536 so that
\* the bounded inputs fill it.
OUTPUT_BUFFER_SIZE == 6

InputBytes == {65, 66}

\* -------------------------------------------------------------- helpers
Min(a, b) == IF a < b THEN a ELSE b

Take(s, n) == SubSeq(s, 1, Min(n, Len(s)))

Drop(s, n) == SubSeq(s, n + 1, Len(s))

SeqsUpTo(A, n) == UNION {[1..k -> A] : k \in 0..n}

\* Buffer.from([...]) and buf[i] = x store a number modulo 256.
ToByte(x) == x % 256

\* The sizes the caller may give the next chunk of `rest`.
ChunkSizes(rest) == {k \in 1..Len(rest) : Len(rest) - k <= MaxSplit}

\* =========================================================================
\* lz.js
\* =========================================================================

\* PushWindow that keeps the oldest bytes once the window is full.
PushWindowKeepOldest(w, b) == IF Len(w) >= WINDOW_SIZE THEN w ELSE Append(w, b)

\* PushWindow without the shift that keeps the window size.
PushWindowNoShift(w, b) == Append(w, b)

\* push(byte) followed by `if (length > WINDOW_SIZE) shift()`.
PushWindow(w, b) ==
  LET w2 == Append(w, b)
  IN IF Len(w2) > WINDOW_SIZE THEN Tail(w2) ELSE w2

\* ---- LZCompressTransform

\* constructor
LZCompressNew ==
  [searchBuffer |-> <<>>, lookaheadBuffer |-> <<>>, inputBuffer |-> <<>>,
   wroteMagicByte |-> FALSE, pushed |-> <<>>, state |-> "open",
   error |-> "none"]

\* _maybeWriteMagicByte without the test of the flag.
LZC_alwaysWriteMagicByte(e) ==
  [e EXCEPT !.pushed = @ \o <<LZ_MAGIC>>, !.wroteMagicByte = TRUE]

LZC_maybeWriteMagicByte(e) ==
  IF ~e.wroteMagicByte
  THEN [e EXCEPT !.pushed = @ \o <<LZ_MAGIC>>, !.wroteMagicByte = TRUE]
  ELSE e

LZC_fillLookahead(e) ==
  LET needed == MAX_MATCH_LENGTH - Len(e.lookaheadBuffer)
  IN IF MAX_MATCH_LENGTH <= Len(e.lookaheadBuffer) \/ Len(e.inputBuffer) = 0
     THEN e
     ELSE LET bytesToTake == Min(needed, Len(e.inputBuffer))
          IN [e EXCEPT !.lookaheadBuffer = @ \o Take(e.inputBuffer, bytesToTake),
                       !.inputBuffer = Drop(@, bytesToTake)]

\* The while loop of _findBestMatch going on past the end of the search
\* buffer into the look-ahead, as a self-overlapping match does.
RECURSIVE CurrentLengthPastEnd(_, _, _, _)
CurrentLengthPastEnd(sb, la, i, currentLength) ==
  IF /\ currentLength < Len(la)
     /\ (sb \o la)[i + currentLength + 1] = la[currentLength + 1]
  THEN CurrentLengthPastEnd(sb, la, i, currentLength + 1)
  ELSE currentLength

\* The inner while of _findBestMatch for search index i (0-based), counting
\* on from currentLength.
RECURSIVE CurrentLength(_, _, _, _)
CurrentLength(sb, la, i, currentLength) ==
  IF /\ currentLength < Len(la)
     /\ i + currentLength < Len(sb)
     /\ sb[i + currentLength + 1] = la[currentLength + 1]
  THEN CurrentLength(sb, la, i, currentLength + 1)
  ELSE currentLength

\* The comparison of _findBestMatch with > in the place of >=.
BetterMatchFirst(currentLength, bestMatchLength) == currentLength > bestMatchLength

\* The comparison that replaces the best match.
BetterMatch(currentLength, bestMatchLength) == currentLength >= bestMatchLength

\* The for loop of _findBestMatch from index i on.
RECURSIVE SearchFrom(_, _, _, _)
SearchFrom(sb, la, i, best) ==
  IF i >= Len(sb) THEN best
  ELSE LET cl == CurrentLength(sb, la, i, 0)
       IN SearchFrom(sb, la, i + 1,
            IF BetterMatch(cl, best.length)
            THEN [offset |-> Len(sb) - i, length |-> cl]
            ELSE best)

\* _findBestMatch reporting the match one place farther back than it is.
LZC_findBestMatchFarther(e) ==
  LET sb == e.searchBuffer
      la == e.lookaheadBuffer
      none == [offset |-> 0, length |-> 0]
  IN IF Len(sb) = 0 \/ Len(la) < MIN_MATCH_LENGTH THEN none
     ELSE LET best == SearchFrom(sb, la, 0, none)
          IN IF best.length >= MIN_MATCH_LENGTH /\ best.offset <= 255
             THEN [offset |-> best.offset + 1, length |-> best.length]
             ELSE none

\* _findBestMatch that takes only a match one byte longer than the minimum.
LZC_findBestMatchLazy(e) ==
  LET sb == e.searchBuffer
      la == e.lookaheadBuffer
      none == [offset |-> 0, length |-> 0]
  IN IF Len(sb) = 0 \/ Len(la) < MIN_MATCH_LENGTH THEN none
     ELSE LET best == SearchFrom(sb, la, 0, none)
          IN IF best.length > MIN_MATCH_LENGTH /\ best.offset <= 255
             THEN best ELSE none

LZC_findBestMatch(e) ==
  LET sb == e.searchBuffer
      la == e.lookaheadBuffer
      none == [offset |-> 0, length |-> 0]
  IN IF Len(sb) = 0 \/ Len(la) < MIN_MATCH_LENGTH THEN none
     ELSE LET best == SearchFrom(sb, la, 0, none)
          IN IF best.length >= MIN_MATCH_LENGTH /\ best.offset <= 255
             THEN best ELSE none

\* The for loop that shifts the matched bytes from the look-ahead into the
\* search buffer; n bytes are still to be moved.
RECURSIVE ShiftMatched(_, _)
ShiftMatched(e, n) ==
  IF n = 0 THEN e
  ELSE IF Len(e.lookaheadBuffer) = 0
       THEN [e EXCEPT !.state = "errored", !.error = "logic"]
       ELSE ShiftMatched(
              [e EXCEPT !.searchBuffer = PushWindow(@, Head(e.lookaheadBuffer)),
                        !.lookaheadBuffer = Tail(@)],
              n - 1)

\* EncodeMatch that writes a length one less than the bytes it moves.
EncodeMatchOneShort(e, match) ==
  ShiftMatched(
    [e EXCEPT !.pushed = @ \o <<MATCH_FLAG, ToByte(match.offset), ToByte(match.length - 1)>>],
    match.length)

\* EncodeMatch that moves two bytes fewer than the match into the window.
EncodeMatchShiftsLess(e, match) ==
  ShiftMatched(
    [e EXCEPT !.pushed = @ \o <<MATCH_FLAG, ToByte(match.offset), ToByte(match.length)>>],
    match.length - 2)

\* EncodeMatch writing the length before the offset.
EncodeMatchSwapped(e, match) ==
  ShiftMatched(
    [e EXCEPT !.pushed = @ \o <<MATCH_FLAG, ToByte(match.length), ToByte(match.offset)>>],
    match.length)

EncodeMatch(e, match) ==
  ShiftMatched(
    [e EXCEPT !.pushed = @ \o <<MATCH_FLAG, ToByte(match.offset), ToByte(match.length)>>],
    match.length)

\* EncodeLiteral that pushes the byte without the flag before it.
EncodeLiteralBare(e) ==
  LET literalByte == Head(e.lookaheadBuffer)
  IN [e EXCEPT !.pushed = @ \o <<literalByte>>,
               !.lookaheadBuffer = Tail(@),
               !.searchBuffer = PushWindow(@, literalByte)]

EncodeLiteral(e) ==
  LET literalByte == Head(e.lookaheadBuffer)
  IN [e EXCEPT !.pushed = @ \o <<LITERAL_FLAG, literalByte>>,
               !.lookaheadBuffer = Tail(@),
               !.searchBuffer = PushWindow(@, literalByte)]

\* The loop of _transform leaving a look-ahead shorter than a match for the
\* next call.
RECURSIVE LZCompressLoopKeepsTail(_)
LZCompressLoopKeepsTail(e) ==
  LET e1 == LZC_fillLookahead(e)
  IN IF Len(e1.lookaheadBuffer) < MIN_MATCH_LENGTH THEN e1
     ELSE LET match == LZC_findBestMatch(e1)
              e2 == IF match.length >= MIN_MATCH_LENGTH
                    THEN EncodeMatch(e1, match)
                    ELSE EncodeLiteral(e1)
              e3 == LZC_fillLookahead(e2)
          IN IF e2.state = "errored" THEN e2
             ELSE IF Len(e3.lookaheadBuffer) = 0 /\ Len(e3.inputBuffer) = 0
                  THEN e3
                  ELSE LZCompressLoopKeepsTail(e3)

\* The while (true) loop of _transform.
RECURSIVE LZCompressLoop(_)
LZCompressLoop(e) ==
  LET e1 == LZC_fillLookahead(e)
  IN IF Len(e1.lookaheadBuffer) = 0 THEN e1
     ELSE LET match == LZC_findBestMatch(e1)
              e2 == IF match.length >= MIN_MATCH_LENGTH
                    THEN EncodeMatch(e1, match)
                    ELSE EncodeLiteral(e1)
              e3 == LZC_fillLookahead(e2)
          IN IF e2.state = "errored" THEN e2
             ELSE IF Len(e3.lookaheadBuffer) = 0 /\ Len(e3.inputBuffer) = 0
                  THEN e3
                  ELSE LZCompressLoop(e3)

LZCompressTransform(e, chunk) ==
  LET e1 == LZC_maybeWriteMagicByte(e)
  IN LZCompressLoop([e1 EXCEPT !.inputBuffer = @ \o chunk])

\* Every byte of bs as a literal token.
RECURSIVE Literals(_)
Literals(bs) ==
  IF bs = <<>> THEN <<>>
  ELSE <<LITERAL_FLAG, Head(bs)>> \o Literals(Tail(bs))

\* _flush without the call of _maybeWriteMagicByte.
LZCompressFlushNoMagic(e) ==
  LET e1 == LZC_fillLookahead(e)
  IN [e1 EXCEPT !.pushed = @ \o Literals(e1.lookaheadBuffer)
                              \o Literals(e1.inputBuffer),
                !.lookaheadBuffer = <<>>,
                !.state = "finished"]

LZCompressFlush(e) ==
  LET e1 == LZC_fillLookahead(LZC_maybeWriteMagicByte(e))
  IN [e1 EXCEPT !.pushed = @ \o Literals(e1.lookaheadBuffer)
                              \o Literals(e1.inputBuffer),
                !.lookaheadBuffer = <<>>,
                !.state = "finished"]

\* ---- LZDecompressTransform

\* constructor
LZDecompressNew ==
  [buffer |-> <<>>, historyBuffer |-> <<>>, checkedMagicByte |-> FALSE,
   pushed |-> <<>>, state |-> "open", error |-> "none"]

LZDFail(d, err) == [d EXCEPT !.state = "errored", !.error = err]

\* CopyIndex reading one place farther on.
CopyIndexBehind(h, startIndex, i) == startIndex + i + 1

\* The index of the history buffer the copy loop reads for byte i.
CopyIndex(h, startIndex, i) == startIndex + i

\* The copy loop of a match: byte i of `length`, bytesToWrite so far.
RECURSIVE CopyLoop(_, _, _, _, _)
CopyLoop(h, startIndex, i, length, bytesToWrite) ==
  IF i >= length THEN [ok |-> TRUE, history |-> h, bytes |-> bytesToWrite]
  ELSE IF CopyIndex(h, startIndex, i) >= Len(h)
       THEN [ok |-> FALSE, history |-> h, bytes |-> bytesToWrite]
       ELSE LET byteToCopy == h[CopyIndex(h, startIndex, i) + 1]
            IN CopyLoop(PushWindow(h, byteToCopy), startIndex, i + 1, length,
                        Append(bytesToWrite, byteToCopy))

\* The token loop without the test for a zero offset or length.
RECURSIVE LZDecompressLoopNoZeroTest(_, _, _)
LZDecompressLoopNoZeroTest(d, buf, pos) ==
  IF pos >= Len(buf) THEN [d |-> d, pos |-> pos]
  ELSE LET flag == buf[pos + 1]
       IN IF flag = LITERAL_FLAG
          THEN IF pos + 1 >= Len(buf) THEN [d |-> d, pos |-> pos]
               ELSE LET literalByte == buf[pos + 2]
                    IN LZDecompressLoopNoZeroTest(
                         [d EXCEPT !.pushed = Append(@, literalByte),
                                   !.historyBuffer = PushWindow(@, literalByte)],
                         buf, pos + 2)
          ELSE IF flag = MATCH_FLAG
          THEN IF pos + 2 >= Len(buf) THEN [d |-> d, pos |-> pos]
               ELSE LET offset == buf[pos + 2]
                        length == buf[pos + 3]
                    IN IF offset > Len(d.historyBuffer)
                       THEN [d |-> LZDFail(d, "offset"), pos |-> pos]
                       ELSE LET c == CopyLoop(d.historyBuffer,
                                              Len(d.historyBuffer) - offset,
                                              0, length, <<>>)
                            IN IF ~c.ok
                               THEN [d |-> LZDFail([d EXCEPT !.historyBuffer = c.history],
                                                   "index"),
                                     pos |-> pos]
                               ELSE LZDecompressLoopNoZeroTest(
                                      [d EXCEPT !.pushed = @ \o c.bytes,
                                                !.historyBuffer = c.history],
                                      buf, pos + 3)
          ELSE [d |-> LZDFail(d, "flag"), pos |-> pos]

\* The token loop of _transform over buf from consumedInputPos (0-based).
\* Yields the instance and the position reached.
RECURSIVE LZDecompressLoop(_, _, _)
LZDecompressLoop(d, buf, pos) ==
  IF pos >= Len(buf) THEN [d |-> d, pos |-> pos]
  ELSE LET flag == buf[pos + 1]
       IN IF flag = LITERAL_FLAG
          THEN IF pos + 1 >= Len(buf) THEN [d |-> d, pos |-> pos]
               ELSE LET literalByte == buf[pos + 2]
                    IN LZDecompressLoop(
                         [d EXCEPT !.pushed = Append(@, literalByte),
                                   !.historyBuffer = PushWindow(@, literalByte)],
                         buf, pos + 2)
          ELSE IF flag = MATCH_FLAG
          THEN IF pos + 2 >= Len(buf) THEN [d |-> d, pos |-> pos]
               ELSE LET offset == buf[pos + 2]
                        length == buf[pos + 3]
                    IN IF offset = 0 \/ length = 0
                       THEN [d |-> LZDFail(d, "match"), pos |-> pos]
                       ELSE IF offset > Len(d.historyBuffer)
                       THEN [d |-> LZDFail(d, "offset"), pos |-> pos]
                       ELSE LET c == CopyLoop(d.historyBuffer,
                                              Len(d.historyBuffer) - offset,
                                              0, length, <<>>)
                            IN IF ~c.ok
                               THEN [d |-> LZDFail([d EXCEPT !.historyBuffer = c.history],
                                                   "index"),
                                     pos |-> pos]
                               ELSE LZDecompressLoop(
                                      [d EXCEPT !.pushed = @ \o c.bytes,
                                                !.historyBuffer = c.history],
                                      buf, pos + 3)
          ELSE [d |-> LZDFail(d, "flag"), pos |-> pos]

\* LZDKeep keeping the whole buffer, the consumed tokens included.
LZDKeepAll(buf, consumedInputPos) == buf

\* LZDKeep forgetting the bytes of an incomplete token.
LZDKeepNothing(buf, consumedInputPos) == <<>>

\* The bytes _transform keeps for the next call.
LZDKeep(buf, consumedInputPos) == Drop(buf, consumedInputPos)

\* _transform without the test of the first byte.
LZDecompressTransformAnyMagic(d, chunk) ==
  LET buf == d.buffer \o chunk
      d0 == [d EXCEPT !.buffer = buf]
  IN IF ~d.checkedMagicByte /\ Len(buf) = 0 THEN d0
     ELSE LET r == LZDecompressLoop([d0 EXCEPT !.checkedMagicByte = TRUE], buf,
                                    IF d.checkedMagicByte THEN 0 ELSE 1)
          IN IF r.d.state = "errored" THEN r.d
             ELSE [r.d EXCEPT !.buffer = LZDKeep(buf, r.pos)]

LZDecompressTransform(d, chunk) ==
  LET buf == d.buffer \o chunk
      d0 == [d EXCEPT !.buffer = buf]
  IN IF ~d.checkedMagicByte /\ Len(buf) = 0 THEN d0
     ELSE IF ~d.checkedMagicByte /\ buf[1] # LZ_MAGIC THEN LZDFail(d0, "magic")
     ELSE LET r == LZDecompressLoop([d0 EXCEPT !.checkedMagicByte = TRUE], buf,
                                    IF d.checkedMagicByte THEN 0 ELSE 1)
          IN IF r.d.state = "errored" THEN r.d
             ELSE [r.d EXCEPT !.buffer = LZDKeep(buf, r.pos)]

LZDecompressFlush(d) ==
  IF ~d.checkedMagicByte /\ Len(d.buffer) = 0
  THEN [d EXCEPT !.state = "finished"]
  ELSE IF Len(d.buffer) > 0 THEN LZDFail(d, "incomplete")
  ELSE [d EXCEPT !.state = "finished"]

\* =========================================================================
\* rle.js
\* =========================================================================

\* ---- RLECompressTransform

\* Buffer.alloc(n): n zero bytes.
BufferAlloc(n) == [i \in 1..n |-> 0]

\* constructor.  lastByte is <<>> for null and <<b>> for the byte b.
\* `pushed` lists the chunks handed to the sink: each is the view
\* slice(0, n) of the one staging buffer, kept as n.  `written` records the
\* bytes stored into the staging buffer, in the order they were stored.
RLECompressNew ==
  [lastByte |-> <<>>, count |-> 0,
   outputBuffer |-> BufferAlloc(OUTPUT_BUFFER_SIZE), outputBufferPos |-> 0,
   wroteMagicByte |-> FALSE, pushed |-> <<>>, written |-> <<>>,
   state |-> "open"]

\* if (pos + n > buffer.length) { push(buffer.slice(0, pos)); pos = 0 }
\* The buffer the encoder goes on writing into is the one the slice views.
RLECMakeRoom(e, n) ==
  IF e.outputBufferPos + n > Len(e.outputBuffer)
  THEN [e EXCEPT !.pushed = Append(@, e.outputBufferPos), !.outputBufferPos = 0]
  ELSE e

\* this._outputBuffer[this._outputBufferPos++] = b
RLECStore(e, b) ==
  [e EXCEPT !.outputBuffer[e.outputBufferPos + 1] = ToByte(b),
            !.outputBufferPos = @ + 1,
            !.written = Append(@, ToByte(b))]

RLEC_maybeWriteMagicByte(e) ==
  IF ~e.wroteMagicByte
  THEN [RLECStore(RLECMakeRoom(e, 1), RLE_MAGIC) EXCEPT !.wroteMagicByte = TRUE]
  ELSE e

RLEC_pushRun(e) ==
  IF e.lastByte # <<>>
  THEN LET e1 == RLECMakeRoom(RLEC_maybeWriteMagicByte(e), 2)
       IN RLECStore(RLECStore(e1, e.lastByte[1]), e.count)
  ELSE e

\* SameRun that ends a run at 100 bytes.
SameRunShortCap(e, currentByte) == currentByte = e.lastByte[1] /\ e.count < 100

\* SameRun without the test of the count.
SameRunUnbounded(e, currentByte) == currentByte = e.lastByte[1]

\* The run continues with currentByte.
SameRun(e, currentByte) == currentByte = e.lastByte[1] /\ e.count < 255

\* RLECByte starting the count of a run at 0.
RLECByteCountFromZero(e, currentByte) ==
  IF e.lastByte = <<>>
  THEN [e EXCEPT !.lastByte = <<currentByte>>, !.count = 0]
  ELSE IF SameRun(e, currentByte)
  THEN [e EXCEPT !.count = @ + 1]
  ELSE [RLEC_pushRun(e) EXCEPT !.lastByte = <<currentByte>>, !.count = 0]

\* The body of the for loop of _transform for one byte.
RLECByte(e, currentByte) ==
  IF e.lastByte = <<>>
  THEN [e EXCEPT !.lastByte = <<currentByte>>, !.count = 1]
  ELSE IF SameRun(e, currentByte)
  THEN [e EXCEPT !.count = @ + 1]
  ELSE [RLEC_pushRun(e) EXCEPT !.lastByte = <<currentByte>>, !.count = 1]

\* The for loop of _transform over chunk, left to right.  The chunk is cut
\* in halves and the state after the first half is a bound value, which
\* keeps the evaluation of a long chunk shallow.
RECURSIVE RLECBytes(_, _)
RLECBytes(e, chunk) ==
  IF chunk = <<>> THEN e
  ELSE IF Len(chunk) = 1 THEN RLECByte(e, chunk[1])
  ELSE LET h == Len(chunk) \div 2
       IN CHOOSE r \in {RLECBytes(e1, Drop(chunk, h)) :
                          e1 \in {RLECBytes(e, Take(chunk, h))}} : TRUE

\* _transform that closes the open run before it returns.
RLECompressTransformClosesRun(e, chunk) ==
  LET e1 == RLECBytes(RLEC_maybeWriteMagicByte(e), chunk)
  IN [RLEC_pushRun(e1) EXCEPT !.lastByte = <<>>, !.count = 0]

RLECompressTransform(e, chunk) ==
  RLECBytes(RLEC_maybeWriteMagicByte(e), chunk)

RLECompressFlush(e) ==
  LET e1 == RLEC_pushRun(RLEC_maybeWriteMagicByte(e))
  IN [e1 EXCEPT !.pushed = IF e1.outputBufferPos > 0
                           THEN Append(@, e1.outputBufferPos) ELSE @,
                !.state = "finished"]

\* ---- RLEDecompressTransform

\* constructor.  outputBuffer holds the bytes staged so far, that is the
\* bytes at 0 .. _outputBufferPos - 1 of the allocated buffer.
RLEDecompressNew ==
  [buffer |-> <<>>, outputBuffer |-> <<>>, processedBytes |-> 0,
   checkedMagicByte |-> FALSE, pushed |-> <<>>, state |-> "open",
   error |-> "none"]

RLEDFail(d, err) == [d EXCEPT !.state = "errored", !.error = err]

\* RLEDWrite losing the staging buffer when it is full.
RLEDWriteLosesFull(d, value) ==
  LET staged == Append(d.outputBuffer, value)
  IN IF Len(staged) = OUTPUT_BUFFER_SIZE
     THEN [d EXCEPT !.outputBuffer = <<>>]
     ELSE [d EXCEPT !.outputBuffer = staged]

\* One pass of the for loop that writes `count` copies of value: the byte is
\* staged, and a full buffer is pushed and a new one allocated.
RLEDWrite(d, value) ==
  LET staged == Append(d.outputBuffer, value)
  IN IF Len(staged) = OUTPUT_BUFFER_SIZE
     THEN [d EXCEPT !.pushed = @ \o staged, !.outputBuffer = <<>>]
     ELSE [d EXCEPT !.outputBuffer = staged]

\* k passes of that loop, cut in halves as in RLECBytes.
RECURSIVE RLEDExpand(_, _, _)
RLEDExpand(d, value, k) ==
  IF k = 0 THEN d
  ELSE IF k = 1 THEN RLEDWrite(d, value)
  ELSE CHOOSE r \in {RLEDExpand(d1, value, k - (k \div 2)) :
                       d1 \in {RLEDExpand(d, value, k \div 2)}} : TRUE

\* The pair loop without the test of the count: a zero count writes nothing.
RECURSIVE RLEDecompressLoopNoZeroTest(_, _, _)
RLEDecompressLoopNoZeroTest(d, buf, pos) ==
  IF ~(pos + 1 < Len(buf)) THEN [d |-> d, pos |-> pos]
  ELSE LET value == buf[pos + 1]
           count == buf[pos + 2]
           d1 == RLEDExpand(d, value, count)
       IN RLEDecompressLoopNoZeroTest([d1 EXCEPT !.processedBytes = @ + count],
                                      buf, pos + 2)

\* The pair loop of _transform over buf from consumedInputPos (0-based).
RECURSIVE RLEDecompressLoop(_, _, _)
RLEDecompressLoop(d, buf, pos) ==
  IF ~(pos + 1 < Len(buf)) THEN [d |-> d, pos |-> pos]
  ELSE LET value == buf[pos + 1]
           count == buf[pos + 2]
       IN IF count = 0 THEN [d |-> RLEDFail(d, "zero"), pos |-> pos]
          ELSE LET d1 == RLEDExpand(d, value, count)
               IN RLEDecompressLoop([d1 EXCEPT !.processedBytes = @ + count],
                                    buf, pos + 2)

\* RLEDKeep forgetting the byte of an incomplete pair.
RLEDKeepNothing(buf, consumedInputPos) == <<>>

\* The bytes _transform keeps for the next call.
RLEDKeep(buf, consumedInputPos) ==
  IF consumedInputPos < Len(buf) THEN Drop(buf, consumedInputPos) ELSE <<>>

\* _transform testing the first byte against the magic byte of the other
\* codec.
RLEDecompressTransformLZMagic(d, chunk) ==
  LET buf == d.buffer \o chunk
      d0 == [d EXCEPT !.buffer = buf]
  IN IF ~d.checkedMagicByte /\ Len(buf) = 0 THEN d0
     ELSE IF ~d.checkedMagicByte /\ buf[1] # LZ_MAGIC THEN RLEDFail(d0, "magic")
     ELSE LET r == RLEDecompressLoop([d0 EXCEPT !.checkedMagicByte = TRUE], buf,
                                     IF d.checkedMagicByte THEN 0 ELSE 1)
          IN IF r.d.state = "errored" THEN r.d
             ELSE [r.d EXCEPT !.buffer = RLEDKeep(buf, r.pos)]

RLEDecompressTransform(d, chunk) ==
  LET buf == d.buffer \o chunk
      d0 == [d EXCEPT !.buffer = buf]
  IN IF ~d.checkedMagicByte /\ Len(buf) = 0 THEN d0
     ELSE IF ~d.checkedMagicByte /\ buf[1] # RLE_MAGIC THEN RLEDFail(d0, "magic")
     ELSE LET r == RLEDecompressLoop([d0 EXCEPT !.checkedMagicByte = TRUE], buf,
                                     IF d.checkedMagicByte THEN 0 ELSE 1)
          IN IF r.d.state = "errored" THEN r.d
             ELSE [r.d EXCEPT !.buffer = RLEDKeep(buf, r.pos)]

\* The leftover input _flush accepts.
OnlyMagicByteCase(d) ==
  d.checkedMagicByte /\ d.processedBytes = 0 /\ Len(d.buffer) = 1

\* _flush that reports a stream in which no magic byte was seen.
RLEDecompressFlushNeedsMagic(d) ==
  IF ~d.checkedMagicByte \/ (Len(d.buffer) > 0 /\ ~OnlyMagicByteCase(d))
  THEN RLEDFail(d, "incomplete")
  ELSE [d EXCEPT !.pushed = @ \o d.outputBuffer, !.outputBuffer = <<>>,
                 !.state = "finished"]

RLEDecompressFlush(d) ==
  IF Len(d.buffer) > 0 /\ ~OnlyMagicByteCase(d)
  THEN RLEDFail(d, "incomplete")
  ELSE [d EXCEPT !.pushed = @ \o d.outputBuffer, !.outputBuffer = <<>>,
                 !.state = "finished"]

\* =========================================================================
\* The pipeline of index.js: source file -> transform -> destination file
\* =========================================================================

VARIABLES
  active,   \* the transforms constructed so far, of "lzc", "lzd", "rlec", "rled"
  orig,     \* the content of the first input file
  pending,  \* per transform, what its source stream has still to deliver
  chunks,   \* per transform, the chunks its source stream has delivered
  lzc,      \* the LZCompressTransform
  lzd,      \* the LZDecompressTransform
  rlec,     \* the RLECompressTransform
  rled,     \* the RLEDecompressTransform
  sink,     \* the destination of the RLE compression: how many of the chunks
            \* of rlec.pushed it has read, and their bytes as it read them
  cli,      \* the run of main of index.js: its arguments, where it stands,
            \* the output file, the message printed and the exit code
  twin      \* a second transform, of any of the four classes, constructed
            \* next to the first: its class, its fields, its input

vars == <<active, orig, pending, chunks, lzc, lzd, rlec, rled, sink, cli, twin>>

\* ---- inputs

ShortInputs == SeqsUpTo(InputBytes, MaxLen)

\* WINDOW_SIZE bytes aabbaabb...: with them encoded the search buffer is full.
WindowFill == [i \in 1..WINDOW_SIZE |-> IF i % 4 \in {0, 3} THEN 66 ELSE 65]

LZInputs == ShortInputs \cup {WindowFill \o t : t \in ShortInputs}

\* A run of 255 equal bytes: with it read the run count is saturated.
SaturatedRun == [i \in 1..255 |-> 65]

RLEInputs == ShortInputs \cup {SaturatedRun \o t : t \in ShortInputs}

\* Lengths of the inputs that are one byte repeated: short ones, and those
\* around one and two saturated runs; 300 is the length the format's
\* description works out.
RunLengths == (1..MaxLen) \cup {254, 255, 256, 300, 509, 510, 511}

RunInputs == {[i \in 1..n |-> v] : n \in RunLengths, v \in InputBytes}

\* Lengths of the one-byte-repeated inputs of the LZ77 codec: every length up
\* to two windows and a little more, and those around MAX_MATCH_LENGTH.
LZRunLengths ==
  (1..(2 * WINDOW_SIZE + MaxLen))
    \cup {MAX_MATCH_LENGTH, MAX_MATCH_LENGTH + 1, MAX_MATCH_LENGTH + WINDOW_SIZE + 1}

LZRunInputs == {[i \in 1..n |-> v] : n \in LZRunLengths, v \in InputBytes}

\* Bytes of the bodies of arbitrary compressed streams: the two flags, small
\* offsets, lengths and counts, a data byte that is also a large length.
StreamBytes == {0, 1, 2, 65}

StreamBodies == SeqsUpTo(StreamBytes, MaxStream)

\* Literal A, literal B, then a match that fills the history buffer exactly.
HistoryFill == <<LZ_MAGIC, 0, 65, 0, 66, 1, 2, WINDOW_SIZE - 2>>

LZStreams ==
  {<<>>} \cup {<<m>> \o b : m \in {LZ_MAGIC, RLE_MAGIC}, b \in StreamBodies}
         \cup {HistoryFill \o b : b \in StreamBodies}

RLEStreams ==
  {<<>>} \cup {<<m>> \o b : m \in {LZ_MAGIC, RLE_MAGIC}, b \in StreamBodies}

SinkNew == [chunks |-> 0, bytes |-> <<>>]

NoInput == [lzc |-> <<>>, lzd |-> <<>>, rlec |-> <<>>, rled |-> <<>>]

\* No second transform is constructed.
TwinOff ==
  [class |-> "none", inst |-> [state |-> "none"], orig |-> <<>>,
   pending |-> <<>>]

\* main of index.js is not run: the transforms are driven directly.
CLIOff ==
  [command |-> "none", rle |-> FALSE, lz |-> FALSE, pc |-> "off",
   outputFile |-> "absent", message |-> "none", exitCode |-> "none"]

\* The state after the constructors.
Constructed ==
  /\ chunks = [lzc |-> 0, lzd |-> 0, rlec |-> 0, rled |-> 0]
  /\ lzc = LZCompressNew
  /\ lzd = LZDecompressNew
  /\ rlec = RLECompressNew
  /\ rled = RLEDecompressNew
  /\ sink = SinkNew

\* compress <file> --lz, later decompress --lz of what it wrote
InitLZ ==
  /\ active = {"lzc"}
  /\ orig \in LZInputs
  /\ pending = [NoInput EXCEPT !.lzc = orig]
  /\ Constructed
  /\ cli = CLIOff
  /\ twin = TwinOff

\* compress <file> --rle, later decompress --rle of what it wrote
InitRLE ==
  /\ active = {"rlec"}
  /\ orig \in RLEInputs
  /\ pending = [NoInput EXCEPT !.rlec = orig]
  /\ Constructed
  /\ cli = CLIOff
  /\ twin = TwinOff

\* decompress <file> --lz of an arbitrary file
InitLZD ==
  /\ active = {"lzd"}
  /\ orig \in LZStreams
  /\ pending = [NoInput EXCEPT !.lzd = orig]
  /\ Constructed
  /\ cli = CLIOff
  /\ twin = TwinOff

\* decompress <file> --rle of an arbitrary file
InitRLED ==
  /\ active = {"rled"}
  /\ orig \in RLEStreams
  /\ pending = [NoInput EXCEPT !.rled = orig]
  /\ Constructed
  /\ cli = CLIOff
  /\ twin = TwinOff

\* Streams made of the magic byte and whole pairs with a count of 1 or
\* more: up to MaxPairs pairs, the counts around the size of the staging
\* buffer and the largest one a byte holds.
PairCounts == {1, 2, OUTPUT_BUFFER_SIZE, 255}

RECURSIVE PairBodies(_)
PairBodies(n) ==
  IF n = 0 THEN {<<>>}
  ELSE {<<>>} \cup {<<v, c>> \o b : v \in InputBytes, c \in PairCounts,
                                     b \in PairBodies(n - 1)}

PairedStreams == {<<RLE_MAGIC>> \o b : b \in PairBodies(MaxPairs)}

\* decompress <file> --rle of a file made of whole pairs
InitRLEPairs ==
  /\ active = {"rled"}
  /\ orig \in PairedStreams
  /\ pending = [NoInput EXCEPT !.rled = orig]
  /\ Constructed
  /\ cli = CLIOff
  /\ twin = TwinOff

\* compress <file> --rle of a file that is one byte repeated
InitRuns ==
  /\ active = {"rlec"}
  /\ orig \in RunInputs
  /\ pending = [NoInput EXCEPT !.rlec = orig]
  /\ Constructed
  /\ cli = CLIOff
  /\ twin = TwinOff

\* compress <file> --lz of a file that is one byte repeated, later
\* decompress --lz of what it wrote
InitLZRuns ==
  /\ active = {"lzc"}
  /\ orig \in LZRunInputs
  /\ pending = [NoInput EXCEPT !.lzc = orig]
  /\ Constructed
  /\ cli = CLIOff
  /\ twin = TwinOff

\* One file compressed by an encoder of each kind, side by side.
InitEnc ==
  /\ active = {"lzc", "rlec"}
  /\ orig \in ShortInputs
  /\ pending = [NoInput EXCEPT !.lzc = orig, !.rlec = orig]
  /\ Constructed
  /\ cli = CLIOff
  /\ twin = TwinOff

\* main of index.js is started with a command, the flags --rle and --lz set
\* or not, and an input file: a file to compress, or an arbitrary file to
\* decompress.
CLIArgs ==
  {[command |-> c, rle |-> r, lz |-> l, pc |-> "start",
    outputFile |-> "absent", message |-> "none", exitCode |-> "none"] :
     c \in {"compress", "decompress", "unknown"}, r \in BOOLEAN, l \in BOOLEAN}

InitCLI ==
  /\ active = {}
  /\ cli \in CLIArgs
  /\ twin = TwinOff
  /\ orig \in (IF cli.command = "compress" THEN ShortInputs ELSE LZStreams)
  /\ pending = NoInput
  /\ Constructed

\* Either decoder on an arbitrary file, or one file compressed by an encoder
\* of each kind, each output later given to the decoder of the other kind.
InitMagic == InitEnc \/ InitLZD \/ InitRLED

\* The four classes of transform.
Classes == {"lzc", "lzd", "rlec", "rled"}

\* new C() for the class t.
NewOf(t) ==
  CASE t = "lzc" -> LZCompressNew
    [] t = "lzd" -> LZDecompressNew
    [] t = "rlec" -> RLECompressNew
    [] t = "rled" -> RLEDecompressNew

\* _transform of the class t.
TransformOf(t, s, chunk) ==
  CASE t = "lzc" -> LZCompressTransform(s, chunk)
    [] t = "lzd" -> LZDecompressTransform(s, chunk)
    [] t = "rlec" -> RLECompressTransform(s, chunk)
    [] t = "rled" -> RLEDecompressTransform(s, chunk)

\* _flush of the class t.
FlushOf(t, s) ==
  CASE t = "lzc" -> LZCompressFlush(s)
    [] t = "lzd" -> LZDecompressFlush(s)
    [] t = "rlec" -> RLECompressFlush(s)
    [] t = "rled" -> RLEDecompressFlush(s)

\* Inputs of two transforms that run side by side: for an encoder, files
\* with and without a run and a match; for a decoder, a valid stream of
\* each format, a stream with an unknown flag and one with a zero count.
PairPlain ==
  {<<>>, <<65, 66>>, <<65, 65, 65, 65, 65, 65>>, <<65, 65, 66, 65, 65, 66>>}

PairStreams ==
  {<<LZ_MAGIC, 0, 65, 1, 1, 3>>, <<LZ_MAGIC, 0, 65, 2>>,
   <<RLE_MAGIC, 65, 2, 66, 1>>, <<RLE_MAGIC, 65, 2, 66, 0>>}

PairInputs(t) == IF t \in {"lzc", "rlec"} THEN PairPlain ELSE PairStreams

\* Two transforms are constructed, each of any class and with an input of
\* its own.
InitPair ==
  /\ \E t \in Classes :
       /\ active = {t}
       /\ orig \in PairInputs(t)
       /\ pending = [NoInput EXCEPT ![t] = orig]
  /\ Constructed
  /\ cli = CLIOff
  /\ \E u \in Classes :
       \E S \in PairInputs(u) :
          twin = [class |-> u, inst |-> NewOf(u), orig |-> S, pending |-> S]

Init ==
  \/ InitLZ \/ InitRLE \/ InitLZD \/ InitRLED \/ InitEnc \/ InitRuns \/ InitLZRuns
  \/ InitCLI \/ InitPair \/ InitRLEPairs

\* ---- actions

\* The source stream of transform t delivers its next k bytes.
Deliver(t, k) ==
  /\ pending' = [pending EXCEPT ![t] = Drop(@, k)]
  /\ chunks' = [chunks EXCEPT ![t] = @ + 1]

\* _transform of the LZ77 encoder on the next chunk.
LZCFeed ==
  /\ "lzc" \in active /\ lzc.state = "open" /\ pending.lzc # <<>>
  /\ \E k \in ChunkSizes(pending.lzc) :
       /\ lzc' = LZCompressTransform(lzc, Take(pending.lzc, k))
       /\ Deliver("lzc", k)
  /\ UNCHANGED <<active, orig, lzd, rlec, rled, sink, cli, twin>>

\* The source stream ended: _flush of the LZ77 encoder.
LZCFinish ==
  /\ "lzc" \in active /\ lzc.state = "open" /\ pending.lzc = <<>>
  /\ lzc' = LZCompressFlush(lzc)
  /\ UNCHANGED <<active, orig, pending, chunks, lzd, rlec, rled, sink, cli, twin>>

\* LZDFeed called again after the decoder has reported an error.
LZDFeedAfterError ==
  /\ "lzd" \in active /\ pending.lzd # <<>>
  /\ \E k \in ChunkSizes(pending.lzd) :
       /\ lzd' = LZDecompressTransform(lzd, Take(pending.lzd, k))
       /\ Deliver("lzd", k)
  /\ UNCHANGED <<active, orig, lzc, rlec, rled, sink, cli, twin>>

LZDFeed ==
  /\ "lzd" \in active /\ lzd.state = "open" /\ pending.lzd # <<>>
  /\ \E k \in ChunkSizes(pending.lzd) :
       /\ lzd' = LZDecompressTransform(lzd, Take(pending.lzd, k))
       /\ Deliver("lzd", k)
  /\ UNCHANGED <<active, orig, lzc, rlec, rled, sink, cli, twin>>

LZDFinish ==
  /\ "lzd" \in active /\ lzd.state = "open" /\ pending.lzd = <<>>
  /\ lzd' = LZDecompressFlush(lzd)
  /\ UNCHANGED <<active, orig, pending, chunks, lzc, rlec, rled, sink, cli, twin>>

RLECFeed ==
  /\ "rlec" \in active /\ rlec.state = "open" /\ pending.rlec # <<>>
  /\ \E k \in ChunkSizes(pending.rlec) :
       /\ rlec' = RLECompressTransform(rlec, Take(pending.rlec, k))
       /\ Deliver("rlec", k)
  /\ UNCHANGED <<active, orig, lzc, lzd, rled, sink, cli, twin>>

RLECFinish ==
  /\ "rlec" \in active /\ rlec.state = "open" /\ pending.rlec = <<>>
  /\ rlec' = RLECompressFlush(rlec)
  /\ UNCHANGED <<active, orig, pending, chunks, lzc, lzd, rled, sink, cli, twin>>

\* The destination stream writes out the next chunk it was handed: it reads
\* the bytes the chunk views at that moment, some time after the push.
RLESinkRead ==
  /\ "rlec" \in active /\ sink.chunks < Len(rlec.pushed)
  /\ sink' = [chunks |-> sink.chunks + 1,
              bytes |-> sink.bytes
                        \o Take(rlec.outputBuffer, rlec.pushed[sink.chunks + 1])]
  /\ UNCHANGED <<active, orig, pending, chunks, lzc, lzd, rlec, rled, cli, twin>>

RLEDFeed ==
  /\ "rled" \in active /\ rled.state = "open" /\ pending.rled # <<>>
  /\ \E k \in ChunkSizes(pending.rled) :
       /\ rled' = RLEDecompressTransform(rled, Take(pending.rled, k))
       /\ Deliver("rled", k)
  /\ UNCHANGED <<active, orig, lzc, lzd, rlec, sink, cli, twin>>

RLEDFinish ==
  /\ "rled" \in active /\ rled.state = "open" /\ pending.rled = <<>>
  /\ rled' = RLEDecompressFlush(rled)
  /\ UNCHANGED <<active, orig, pending, chunks, lzc, lzd, rlec, sink, cli, twin>>

\* TwinFeed with the window of the LZ77 transforms kept in one place for
\* all instances: the second transform's window is also the first's.
TwinFeedSharedWindow ==
  /\ twin.class \in Classes /\ twin.inst.state = "open" /\ twin.pending # <<>>
  /\ \E k \in ChunkSizes(twin.pending) :
       twin' = [twin EXCEPT
                  !.inst = TransformOf(twin.class, @, Take(twin.pending, k)),
                  !.pending = Drop(@, k)]
  /\ lzc' = IF twin.class = "lzc"
            THEN [lzc EXCEPT !.searchBuffer = twin'.inst.searchBuffer]
            ELSE lzc
  /\ lzd' = IF twin.class = "lzd"
            THEN [lzd EXCEPT !.historyBuffer = twin'.inst.historyBuffer]
            ELSE lzd
  /\ UNCHANGED <<active, orig, pending, chunks, rlec, rled, sink, cli>>

\* _transform of the second transform on its next chunk.
TwinFeed ==
  /\ twin.class \in Classes /\ twin.inst.state = "open" /\ twin.pending # <<>>
  /\ \E k \in ChunkSizes(twin.pending) :
       twin' = [twin EXCEPT
                  !.inst = TransformOf(twin.class, @, Take(twin.pending, k)),
                  !.pending = Drop(@, k)]
  /\ UNCHANGED <<active, orig, pending, chunks, lzc, lzd, rlec, rled, sink, cli>>

\* _flush of the second transform.
TwinFinish ==
  /\ twin.class \in Classes /\ twin.inst.state = "open" /\ twin.pending = <<>>
  /\ twin' = [twin EXCEPT !.inst = FlushOf(twin.class, @)]
  /\ UNCHANGED <<active, orig, pending, chunks, lzc, lzd, rlec, rled, sink, cli>>

\* The LZ77 compression has ended: its output file is complete.
LZCompressed == "lzc" \in active /\ lzc.state = "finished"

\* The RLE compression has ended and the destination has written all chunks.
RLECompressed ==
  "rlec" \in active /\ rlec.state = "finished" /\ sink.chunks = Len(rlec.pushed)

\* decompress --lz is run on the file the LZ77 compression wrote.
LZDecompressFile ==
  /\ LZCompressed /\ "lzd" \notin active
  /\ active' = active \cup {"lzd"}
  /\ pending' = [pending EXCEPT !.lzd = lzc.pushed]
  /\ UNCHANGED <<orig, chunks, lzc, lzd, rlec, rled, sink, cli, twin>>

\* decompress --rle is run on the file the RLE compression wrote.
RLEDecompressFile ==
  /\ RLECompressed /\ "rled" \notin active
  /\ active' = active \cup {"rled"}
  /\ pending' = [pending EXCEPT !.rled = sink.bytes]
  /\ UNCHANGED <<orig, chunks, lzc, lzd, rlec, rled, sink, cli, twin>>

\* decompress --rle is run on the file the LZ77 compression wrote.
RLEDecompressLZFile ==
  /\ LZCompressed /\ RLECompressed /\ "rled" \notin active
  /\ active' = active \cup {"rled"}
  /\ pending' = [pending EXCEPT !.rled = lzc.pushed]
  /\ UNCHANGED <<orig, chunks, lzc, lzd, rlec, rled, sink, cli, twin>>

\* decompress --lz is run on the file the RLE compression wrote.
LZDecompressRLEFile ==
  /\ LZCompressed /\ RLECompressed /\ "lzd" \notin active
  /\ active' = active \cup {"lzd"}
  /\ pending' = [pending EXCEPT !.lzd = sink.bytes]
  /\ UNCHANGED <<orig, chunks, lzc, lzd, rlec, rled, sink, cli, twin>>

\* ---- main of index.js

\* The transform main constructs for its arguments, or "usage" when it calls
\* printUsageAndExit with an error instead.
Selected(c) ==
  IF c.command = "compress"
  THEN IF c.rle /\ c.lz THEN "usage"
       ELSE IF c.rle \/ ~c.lz THEN "rlec" ELSE "lzc"
  ELSE IF c.command = "decompress"
  THEN IF c.rle /\ c.lz THEN "usage"
       ELSE IF ~c.rle /\ ~c.lz THEN "usage"
       ELSE IF c.lz THEN "lzd" ELSE "rled"
  ELSE "usage"

\* The state of transform t.
StateOf(t) ==
  CASE t = "lzc" -> lzc.state
    [] t = "lzd" -> lzd.state
    [] t = "rlec" -> rlec.state
    [] t = "rled" -> rled.state

\* main up to the call of pipeline: the arguments are examined, the
\* transform is constructed and the two file streams are created; or the
\* usage is printed with an error and the process exits with code 1.
CLIStart ==
  /\ cli.pc = "start"
  /\ LET t == Selected(cli)
     IN IF t = "usage"
        THEN /\ cli' = [cli EXCEPT !.pc = "exited", !.message = "usage",
                                   !.exitCode = "1"]
             /\ UNCHANGED <<active, pending>>
        ELSE /\ cli' = [cli EXCEPT !.pc = "pipeline", !.outputFile = "partial"]
             /\ active' = {t}
             /\ pending' = [pending EXCEPT ![t] = orig]
  /\ UNCHANGED <<orig, chunks, lzc, lzd, rlec, rled, sink, twin>>

\* The pipeline has ended without error: the success message is printed and
\* main returns.
CLIPipelineSucceeded ==
  /\ cli.pc = "pipeline"
  /\ \A t \in active : StateOf(t) = "finished"
  /\ "rlec" \in active => sink.chunks = Len(rlec.pushed)
  /\ cli' = [cli EXCEPT !.pc = "exited", !.message = "successful",
                        !.outputFile = "complete", !.exitCode = "0"]
  /\ UNCHANGED <<active, orig, pending, chunks, lzc, lzd, rlec, rled, sink, twin>>

\* The catch block without the unlinkSync of the output file.
CLIPipelineFailedKeepsFile ==
  /\ cli.pc = "pipeline"
  /\ \E t \in active : StateOf(t) = "errored"
  /\ cli' = [cli EXCEPT !.pc = "exited", !.message = "failed", !.exitCode = "1"]
  /\ UNCHANGED <<active, orig, pending, chunks, lzc, lzd, rlec, rled, sink, twin>>

\* The pipeline has ended with the error of the transform: the catch block
\* prints the failure, removes the output file and exits with code 1.
CLIPipelineFailed ==
  /\ cli.pc = "pipeline"
  /\ \E t \in active : StateOf(t) = "errored"
  /\ cli' = [cli EXCEPT !.pc = "exited", !.message = "failed",
                        !.outputFile = "absent", !.exitCode = "1"]
  /\ UNCHANGED <<active, orig, pending, chunks, lzc, lzd, rlec, rled, sink, twin>>

NextLZ == LZCFeed \/ LZCFinish \/ LZDecompressFile \/ LZDFeed \/ LZDFinish

NextRLE ==
  RLECFeed \/ RLECFinish \/ RLESinkRead \/ RLEDecompressFile \/ RLEDFeed \/ RLEDFinish

NextLZD == LZDFeed \/ LZDFinish

NextRLED == RLEDFeed \/ RLEDFinish

NextEnc == LZCFeed \/ LZCFinish \/ RLECFeed \/ RLECFinish \/ RLESinkRead

NextRuns == RLECFeed \/ RLECFinish \/ RLESinkRead

NextMagic ==
  \/ LZCFeed \/ LZCFinish \/ RLECFeed \/ RLECFinish \/ RLESinkRead
  \/ RLEDecompressLZFile \/ LZDecompressRLEFile
  \/ LZDFeed \/ LZDFinish \/ RLEDFeed \/ RLEDFinish

NextPair ==
  \/ LZCFeed \/ LZCFinish \/ LZDFeed \/ LZDFinish
  \/ RLECFeed \/ RLECFinish \/ RLESinkRead \/ RLEDFeed \/ RLEDFinish
  \/ TwinFeed \/ TwinFinish

NextCLI ==
  \/ CLIStart \/ CLIPipelineSucceeded \/ CLIPipelineFailed
  \/ LZCFeed \/ LZCFinish \/ RLECFeed \/ RLECFinish \/ RLESinkRead
  \/ LZDFeed \/ LZDFinish \/ RLEDFeed \/ RLEDFinish

Next ==
  \/ LZCFeed \/ LZCFinish \/ LZDecompressFile \/ LZDFeed \/ LZDFinish
  \/ RLECFeed \/ RLECFinish \/ RLESinkRead \/ RLEDecompressFile
  \/ RLEDFeed \/ RLEDFinish
  \/ RLEDecompressLZFile \/ LZDecompressRLEFile
  \/ CLIStart \/ CLIPipelineSucceeded \/ CLIPipelineFailed
  \/ TwinFeed \/ TwinFinish

\* Round trips of the LZ77 codec.
SpecLZ == InitLZ /\ [][NextLZ]_vars

\* Round trips of the RLE codec.
SpecRLE == InitRLE /\ [][NextRLE]_vars

\* The LZ77 decoder on arbitrary streams.
SpecLZD == InitLZD /\ [][NextLZD]_vars

\* The RLE decoder on arbitrary streams.
SpecRLED == InitRLED /\ [][NextRLED]_vars

\* An encoder of each kind on the same input, their calls interleaved.
SpecEnc == InitEnc /\ [][NextEnc]_vars

\* The RLE encoder on inputs that are one byte repeated.
SpecRuns == InitRuns /\ [][NextRuns]_vars

\* Round trips of the LZ77 codec on inputs that are one byte repeated.
SpecLZRuns == InitLZRuns /\ [][NextLZ]_vars

\* Each decoder on arbitrary streams and on the other encoder's output.
SpecMagic == InitMagic /\ [][NextMagic]_vars

\* One run of main of index.js.
SpecCLI == InitCLI /\ [][NextCLI]_vars

\* Two transforms of any classes, the calls of the two in any order.
SpecPair == InitPair /\ [][NextPair]_vars

\* The RLE decoder on streams of whole pairs.
SpecRLEPairs == InitRLEPairs /\ [][NextRLED]_vars

\* Everything.
Spec == Init /\ [][Next]_vars

\* =========================================================================
\* Claims
\* =========================================================================

\* What a finished or failed decoder has delivered and how it ended.
Outcome(d) == [pushed |-> d.pushed, state |-> d.state, error |-> d.error]

\* The whole of S given to a new LZ77 encoder as one chunk, then the end.
LZCOneShot(S) ==
  LZCompressFlush(IF S = <<>> THEN LZCompressNew
                  ELSE LZCompressTransform(LZCompressNew, S))

\* The whole of X given to a new LZ77 decoder as one chunk, then the end.
LZDOneShot(X) ==
  IF X = <<>> THEN LZDecompressFlush(LZDecompressNew)
  ELSE LET d == LZDecompressTransform(LZDecompressNew, X)
       IN IF d.state = "errored" THEN d ELSE LZDecompressFlush(d)

\* The whole of X given to a new RLE decoder as one chunk, then the end.
RLEDOneShot(X) ==
  IF X = <<>> THEN RLEDecompressFlush(RLEDecompressNew)
  ELSE LET d == RLEDecompressTransform(RLEDecompressNew, X)
       IN IF d.state = "errored" THEN d ELSE RLEDecompressFlush(d)

\* ---- C1
\* C1: LZ77 round trip.  When the decoder that was given the encoder's output
\* has ended, it has ended without error and has delivered exactly the bytes
\* the encoder was given; the encoder reports no error either.
C1_LZRoundTrip ==
  /\ lzc.state # "errored"
  /\ ("lzd" \in active /\ lzd.state # "open")
       => (lzd.state = "finished" /\ lzd.pushed = orig)

\* ---- C2
\* C2: RLE round trip.  When the decoder that was given the file the encoder
\* wrote has ended, it has ended without error and has delivered exactly the
\* bytes the encoder was given.
C2_RLERoundTrip ==
  ("rled" \in active /\ rled.state # "open")
    => (rled.state = "finished" /\ rled.pushed = orig)

\* ---- C3
\* The magic byte, then complete pairs with nonzero counts, then one byte.
TruncatedRLE(x) ==
  /\ Len(x) >= 2 /\ Len(x) % 2 = 0
  /\ x[1] = RLE_MAGIC
  /\ \A j \in 1..((Len(x) \div 2) - 1) : x[2 * j + 1] # 0

\* C3: RLE truncation.  A decoder given the magic byte, zero or more complete
\* pairs and one leftover byte never ends successfully: it ends with the
\* incomplete-pair error.
C3_RLETruncation ==
  (TruncatedRLE(orig) /\ rled.state # "open")
    => (rled.state = "errored" /\ rled.error = "incomplete")

\* ---- C4
\* The copy of a match as the format defines it: each byte is the byte
\* `offset` places before it in the whole decoded output.
RECURSIVE RefCopy(_, _, _)
RefCopy(out, offset, n) ==
  IF n = 0 THEN out
  ELSE RefCopy(Append(out, out[Len(out) - offset + 1]), offset, n - 1)

\* The output the tokens of body stand for, after out.
RECURSIVE RefLZ(_, _)
RefLZ(body, out) ==
  IF body = <<>> THEN out
  ELSE IF body[1] = LITERAL_FLAG THEN RefLZ(Drop(body, 2), Append(out, body[2]))
  ELSE RefLZ(Drop(body, 3), RefCopy(out, body[2], body[3]))

\* The bytes the LZ77 decoder has consumed: those delivered to it less those
\* it keeps for the next call.
LZDConsumed ==
  Take(orig, Len(orig) - Len(pending.lzd) - Len(lzd.buffer))

\* C4: LZ77 self-overlapping copy.  A match whose offset is within the
\* history never fails, and as long as the decoder has reported no error its
\* output is what the tokens it consumed stand for: every match has added
\* `length` bytes, each the byte `offset` places before it in the output.
C4_SelfOverlappingCopy ==
  /\ lzd.error # "index"
  /\ (lzd.state # "errored" /\ lzd.checkedMagicByte)
       => lzd.pushed = RefLZ(Tail(LZDConsumed), <<>>)

\* ---- C5
\* C5: output buffering of the RLE encoder.  When the encoder has finished
\* and the sink has read every chunk, the bytes the sink read are the bytes
\* the encoder stored, in the order it stored them: the magic byte, then the
\* run pairs.
C5_BufferingPreservesContent ==
  RLECompressed => sink.bytes = rlec.written

\* ---- C6
\* C6: chunk-boundary invariance of the LZ77 decoder.  However the stream was
\* cut into chunks, a decoder that has ended has delivered the same bytes and
\* ended the same way (success, or the same error) as a decoder given the
\* whole stream as one chunk.
C6_LZDChunkInvariance ==
  ("lzd" \in active /\ lzd.state # "open")
    => Outcome(lzd) = Outcome(LZDOneShot(orig))

\* A stream of several tokens decoded to the end one byte per chunk.
C6_Witness ==
  /\ lzd.state = "finished" /\ Len(lzd.pushed) >= 2
  /\ Len(orig) >= 5 /\ chunks.lzd = Len(orig)

\* ---- C7
\* C7: chunk-boundary invariance of the RLE decoder.  However the stream was
\* cut into chunks, a decoder that has ended has delivered the same bytes and
\* ended the same way (success, or the same error) as a decoder given the
\* whole stream as one chunk.
C7_RLEDChunkInvariance ==
  ("rled" \in active /\ rled.state # "open")
    => Outcome(rled) = Outcome(RLEDOneShot(orig))

\* A stream of two pairs decoded to the end one byte per chunk.
C7_Witness ==
  /\ rled.state = "finished" /\ Len(rled.pushed) >= 2
  /\ Len(orig) >= 5 /\ chunks.rled = Len(orig)

\* ---- C8
\* C8: chunk-boundary invariance of the LZ77 encoder.  However the input was
\* cut into chunks for the encoder, decoding what it produced delivers the
\* same bytes as decoding what an encoder given the whole input as one chunk
\* produces.
C8_LZCChunkInvariance ==
  ("lzd" \in active /\ lzd.state # "open")
    => lzd.pushed = LZDOneShot(LZCOneShot(orig).pushed).pushed

\* ---- C9
\* C9: empty input.  An encoder finished without having been given a byte has
\* produced its magic byte and nothing else: the LZ77 encoder has pushed
\* <<0x4C>>, and the sink of the RLE encoder has read <<0x52>>.
C9_EmptyInputEncoding ==
  orig = <<>> =>
    /\ LZCompressed => lzc.pushed = <<LZ_MAGIC>>
    /\ RLECompressed => sink.bytes = <<RLE_MAGIC>>

\* Both encoders finished on the empty input.
C9_Witness == orig = <<>> /\ LZCompressed /\ RLECompressed

\* ---- C10
\* body is a sequence of whole LZ77 tokens.
RECURSIVE IsLZTokens(_)
IsLZTokens(body) ==
  IF body = <<>> THEN TRUE
  ELSE IF body[1] = LITERAL_FLAG /\ Len(body) >= 2 THEN IsLZTokens(Drop(body, 2))
  ELSE IF body[1] = MATCH_FLAG /\ Len(body) >= 3 THEN IsLZTokens(Drop(body, 3))
  ELSE FALSE

\* The magic-written flag of the LZ77 encoder is unset until its first call
\* and set ever after; what the encoder has emitted is nothing while the flag
\* is unset, and the magic byte followed by whole tokens once it is set.
LZMagicFramed ==
  /\ lzc.wroteMagicByte <=> (chunks.lzc > 0 \/ lzc.state = "finished")
  /\ IF lzc.wroteMagicByte
     THEN /\ lzc.pushed # <<>> /\ lzc.pushed[1] = LZ_MAGIC
          /\ IsLZTokens(Tail(lzc.pushed))
     ELSE lzc.pushed = <<>>

\* The same of the RLE encoder and the bytes it has stored: the magic byte
\* followed by whole pairs.
RLEMagicFramed ==
  /\ rlec.wroteMagicByte <=> (chunks.rlec > 0 \/ rlec.state = "finished")
  /\ IF rlec.wroteMagicByte
     THEN /\ rlec.written # <<>> /\ rlec.written[1] = RLE_MAGIC
          /\ Len(rlec.written) % 2 = 1
     ELSE rlec.written = <<>>

RunPairs(v, n) ==
  [i \in 1..(2 * (n \div 255)) |-> IF i % 2 = 1 THEN v ELSE 255]
    \o (IF n % 255 # 0 THEN <<v, n % 255>> ELSE <<>>)

IsRun(S) == S # <<>> /\ \A i \in 1..Len(S) : S[i] = S[1]

RECURSIVE SumOfCounts(_)
SumOfCounts(body) ==
  IF Len(body) < 2 THEN 0 ELSE body[2] + SumOfCounts(Drop(body, 2))

\* w is the magic byte followed by whole pairs with counts in 1..255.
IsRLEFormat(w) ==
  /\ w # <<>> /\ w[1] = RLE_MAGIC
  /\ Len(w) % 2 = 1
  /\ \A j \in 1..((Len(w) - 1) \div 2) :
       w[2 * j] \in 0..255 /\ w[2 * j + 1] \in 1..255

RECURSIVE Covers(_, _, _, _)
Covers(body, S, n, whole) ==
  IF body = <<>> THEN (IF whole THEN n = Len(S) ELSE n <= Len(S))
  ELSE IF body[1] = LITERAL_FLAG
  THEN /\ Len(body) >= 2
       /\ n < Len(S) /\ S[n + 1] = body[2]
       /\ Covers(Drop(body, 2), S, n + 1, whole)
  ELSE IF body[1] = MATCH_FLAG
  THEN /\ Len(body) >= 3
       /\ body[2] \in 1..255 /\ body[3] \in 3..255
       /\ body[2] <= n /\ n + body[3] <= Len(S)
       /\ \A k \in 1..body[3] : S[n + k] = S[n + k - body[2]]
       /\ Covers(Drop(body, 3), S, n + body[3], whole)
  ELSE FALSE

\* C13: LZ77 wire format.  Whatever the input and its chunking, what the
\* encoder has emitted from its first call on is the magic byte followed by
\* whole tokens, each [0x00, byte] or [0x01, offset, length] with offset in
\* 1..255 and length in 3..255, which in the order emitted stand for the
\* bytes of the input in their order; at the end they stand for all of it.
C13_LZWireFormat ==
  /\ lzc.wroteMagicByte
       => /\ lzc.pushed # <<>> /\ lzc.pushed[1] = LZ_MAGIC
          /\ Covers(Tail(lzc.pushed), orig, 0, FALSE)
  /\ lzc.state = "finished"
       => /\ lzc.pushed # <<>> /\ lzc.pushed[1] = LZ_MAGIC
          /\ Covers(Tail(lzc.pushed), orig, 0, TRUE)

\* The encoder finished after several chunks, having emitted literals and a
\* match whose offset differs from its length.
C13_Witness ==
  /\ lzc.state = "finished" /\ chunks.lzc >= 2
  /\ \E p \in 2..(Len(lzc.pushed) - 2) :
       /\ Covers(SubSeq(lzc.pushed, 2, p - 1), orig, 0, FALSE)
       /\ lzc.pushed[p] = MATCH_FLAG
       /\ lzc.pushed[p + 1] # lzc.pushed[p + 2]

\* ---- C14
\* Every match of the whole tokens of body has an offset that is at most
\* WINDOW_SIZE and at most the length of a history that holds the last
\* WINDOW_SIZE of the n bytes the tokens before it stand for.
RECURSIVE OffsetsWithinHistory(_, _)
OffsetsWithinHistory(body, n) ==
  IF body = <<>> THEN TRUE
  ELSE IF body[1] = LITERAL_FLAG /\ Len(body) >= 2
  THEN OffsetsWithinHistory(Drop(body, 2), n + 1)
  ELSE IF body[1] = MATCH_FLAG /\ Len(body) >= 3
  THEN /\ body[2] <= WINDOW_SIZE
       /\ body[2] <= Min(n, WINDOW_SIZE)
       /\ OffsetsWithinHistory(Drop(body, 3), n + body[3])
  ELSE FALSE

\* C14: LZ77 window bound.  Every match the encoder emits has an offset of
\* at most 20 that is also at most the number of bytes of history standing
\* before it; the decoder given the encoder's output holds, as long as it has
\* not failed, the last 20 of the bytes it has delivered as its history, and
\* it never rejects a match for an offset beyond its history.
C14_LZWindowBound ==
  /\ lzc.wroteMagicByte => OffsetsWithinHistory(Tail(lzc.pushed), 0)
  /\ Len(lzc.searchBuffer) <= WINDOW_SIZE
  /\ "lzd" \in active
       => /\ lzd.error # "offset"
          /\ lzd.state # "errored"
               => Len(lzd.historyBuffer) = Min(Len(lzd.pushed), WINDOW_SIZE)

\* The decoder has ended on an encoder output in which a match stands after
\* WINDOW_SIZE bytes or more: its history was full when it decoded the match.
C14_Witness ==
  /\ "lzd" \in active /\ lzd.state # "open"
  /\ Len(lzd.historyBuffer) = WINDOW_SIZE
  /\ \E p \in 2..(Len(lzc.pushed) - 2) :
       /\ Covers(SubSeq(lzc.pushed, 2, p - 1), orig, 0, FALSE)
       /\ lzc.pushed[p] = MATCH_FLAG
       /\ Len(RefLZ(SubSeq(lzc.pushed, 2, p - 1), <<>>)) >= WINDOW_SIZE

\* ---- C15
\* C15: LZ77 round trip of a repeated byte.  For n >= 1 repeats of one byte,
\* the decoder given what the encoder produced has, when it has ended, ended
\* without error and delivered all n bytes.
C15_LZRepeatedByteRoundTrip ==
  (IsRun(orig) /\ "lzd" \in active /\ lzd.state # "open")
    => (lzd.state = "finished" /\ lzd.pushed = orig)

\* Ten repeats of one byte encoded with a match and decoded to the end.
C15_Witness ==
  /\ Len(orig) = 10 /\ IsRun(orig)
  /\ "lzd" \in active /\ lzd.state = "finished" /\ lzd.pushed = orig
  /\ \E p \in 2..(Len(lzc.pushed) - 2) :
       /\ Covers(SubSeq(lzc.pushed, 2, p - 1), orig, 0, FALSE)
       /\ lzc.pushed[p] = MATCH_FLAG

\* ---- C16
\* The places p of the pairs of x, counted from 1 after the magic byte, whose
\* count is zero.
ZeroPairs(x) == {p \in 1..((Len(x) - 1) \div 2) : x[2 * p + 1] = 0}

\* The bytes of orig delivered to the RLE decoder so far.
RLEDDelivered == Len(orig) - Len(pending.rled)

\* C16: RLE corruption.  For a stream with the magic byte whose first pair
\* with a zero count is pair p: as long as the count byte of pair p has not
\* been delivered the decoder has reported nothing, and from the call that
\* delivers it on the decoder has failed with the zero-count error, however
\* the stream was cut into chunks.
C16_RLEZeroCount ==
  (orig # <<>> /\ orig[1] = RLE_MAGIC /\ ZeroPairs(orig) # {})
    => LET p == CHOOSE q \in ZeroPairs(orig) : \A r \in ZeroPairs(orig) : q <= r
       IN IF RLEDDelivered >= 1 + 2 * p
          THEN rled.state = "errored" /\ rled.error = "zero"
          ELSE rled.state = "open"

\* A stream whose second pair has the zero count, fed one byte per chunk:
\* the decoder failed on the fifth chunk, with input still to come.
C16_Witness ==
  /\ orig # <<>> /\ orig[1] = RLE_MAGIC /\ ZeroPairs(orig) = {2}
  /\ chunks.rled = 5 /\ pending.rled # <<>>
  /\ rled.state = "errored" /\ rled.error = "zero"

\* ---- C17
\* C17: RLE magic-only stream.  The decoder given the one byte 0x52 and then
\* the end has finished successfully and has delivered nothing; after the
\* byte and before the end it has reported nothing and holds no input.
C17_RLEMagicOnly ==
  orig = <<RLE_MAGIC>>
    => /\ rled.pushed = <<>> /\ rled.outputBuffer = <<>>
       /\ rled.state # "errored"
       /\ chunks.rled = 1 => rled.checkedMagicByte /\ rled.buffer = <<>>

\* The stream 0x52 decoded to the end.
C17_Witness ==
  orig = <<RLE_MAGIC>> /\ chunks.rled = 1 /\ rled.state = "finished"

\* ---- C18
\* body is whole tokens the format allows after n bytes of output (a match
\* has an offset within the last WINDOW_SIZE of them and a length of 1 or
\* more), followed by the start of a token: a flag alone, or the match flag
\* and an offset.
RECURSIVE EndsInsideToken(_, _)
EndsInsideToken(body, n) ==
  IF body = <<>> THEN FALSE
  ELSE IF body[1] = LITERAL_FLAG
  THEN IF Len(body) = 1 THEN TRUE ELSE EndsInsideToken(Drop(body, 2), n + 1)
  ELSE IF body[1] = MATCH_FLAG
  THEN IF Len(body) <= 2 THEN TRUE
       ELSE /\ body[2] \in 1..Min(n, WINDOW_SIZE) /\ body[3] >= 1
            /\ EndsInsideToken(Drop(body, 3), n + body[3])
  ELSE FALSE

\* C18: LZ77 truncation.  For a stream with the magic byte that ends inside
\* a token, the decoder reports nothing until the end, and at the end it
\* fails with the incomplete-token error, however the stream was cut.
C18_LZTruncation ==
  (orig # <<>> /\ orig[1] = LZ_MAGIC /\ EndsInsideToken(Tail(orig), 0))
    => /\ lzd.error \in {"none", "incomplete"}
       /\ lzd.state # "open" => lzd.state = "errored"

\* ---- C19
\* The stream each decoder is given: the file the other encoder wrote when
\* the encoders ran, the input file otherwise.
LZDStream == IF "rlec" \in active THEN sink.bytes ELSE orig

RLEDStream == IF "lzc" \in active THEN lzc.pushed ELSE orig

RECURSIVE CorruptMatch(_, _, _)
CorruptMatch(body, n, p) ==
  LET none == [kind |-> "none", at |-> 0, out |-> 0]
  IN IF body = <<>> THEN none
     ELSE IF body[1] = LITERAL_FLAG
     THEN IF Len(body) < 2 THEN none
          ELSE CorruptMatch(Drop(body, 2), n + 1, p + 2)
     ELSE IF body[1] = MATCH_FLAG
     THEN IF Len(body) < 3 THEN none
          ELSE IF body[2] = 0 \/ body[3] = 0
          THEN [kind |-> "match", at |-> p + 3, out |-> n]
          ELSE IF body[2] > Min(n, WINDOW_SIZE)
          THEN [kind |-> "offset", at |-> p + 3, out |-> n]
          ELSE CorruptMatch(Drop(body, 3), n + body[3], p + 3)
     ELSE none

\* The bytes of orig delivered to the LZ77 decoder so far.
LZDDelivered == Len(orig) - Len(pending.lzd)

\* C20: LZ77 corrupt match.  For a stream whose first corrupt match is a
\* given token: until the last byte of that token is delivered the decoder
\* reports no corrupt match; once it is delivered, and unless the decoder
\* failed on a token before it, the decoder has failed with the error of that
\* token (zero offset or length, or offset beyond the history) and has
\* delivered the bytes of the tokens before it and none for it.
C20_LZCorruptMatch ==
  (orig # <<>> /\ orig[1] = LZ_MAGIC)
    => LET c == CorruptMatch(Tail(orig), 0, 1)
       IN /\ (c.kind = "none" \/ LZDDelivered < c.at)
               => lzd.error \notin {"match", "offset"}
          /\ (c.kind # "none" /\ LZDDelivered >= c.at /\ lzd.error # "index")
               => /\ lzd.state = "errored" /\ lzd.error = c.kind
                  /\ Len(lzd.pushed) = c.out

\* A match beyond the history after a literal or more, fed in several chunks.
C20_Witness ==
  /\ orig # <<>> /\ orig[1] = LZ_MAGIC
  /\ CorruptMatch(Tail(orig), 0, 1).kind = "offset"
  /\ lzd.state = "errored" /\ lzd.error = "offset"
  /\ Len(lzd.pushed) >= 1 /\ chunks.lzd >= 2

\* ---- C21
\* The first byte of body that stands where a token starts and is no flag,
\* all tokens before it being whole tokens the format allows after n bytes
\* of output.  `at` is the number of bytes of the stream up to that byte, p
\* being the number before body, and `before` the number of bytes of body in
\* front of it.  found is FALSE when there is none.
RECURSIVE UnknownFlag(_, _, _, _)
UnknownFlag(body, n, p, q) ==
  LET none == [found |-> FALSE, at |-> 0, before |-> 0]
  IN IF body = <<>> THEN none
     ELSE IF body[1] = LITERAL_FLAG
     THEN IF Len(body) < 2 THEN none
          ELSE UnknownFlag(Drop(body, 2), n + 1, p + 2, q + 2)
     ELSE IF body[1] = MATCH_FLAG
     THEN IF Len(body) < 3 THEN none
          ELSE IF body[2] \in 1..Min(n, WINDOW_SIZE) /\ body[3] >= 1
          THEN UnknownFlag(Drop(body, 3), n + body[3], p + 3, q + 3)
          ELSE none
     ELSE [found |-> TRUE, at |-> p + 1, before |-> q]

\* C21: LZ77 unknown token.  For a stream of valid tokens followed, where a
\* token starts, by a byte that is neither 0x00 nor 0x01: until that byte is
\* delivered the decoder reports no error, and from the call that delivers
\* it on the decoder has failed with the invalid-flag error, having delivered
\* what the tokens before the byte stand for, in order.
C21_LZUnknownToken ==
  (orig # <<>> /\ orig[1] = LZ_MAGIC)
    => LET u == UnknownFlag(Tail(orig), 0, 1, 0)
       IN u.found
            => IF LZDDelivered < u.at THEN lzd.state = "open"
               ELSE /\ lzd.state = "errored" /\ lzd.error = "flag"
                    /\ lzd.pushed = RefLZ(Take(Tail(orig), u.before), <<>>)

\* ---- C22
\* Some transform of the run has reported an error.
SomeErrored == \E t \in active : StateOf(t) = "errored"

\* A step leaves a transform that has reported an error as it is, output
\* delivered and input still to come included, and does not print the
\* success message after an error.
ErrorsTerminalStep ==
  /\ lzc.state = "errored" => (lzc' = lzc /\ pending'.lzc = pending.lzc)
  /\ lzd.state = "errored" => (lzd' = lzd /\ pending'.lzd = pending.lzd)
  /\ rled.state = "errored" => (rled' = rled /\ pending'.rled = pending.rled)
  /\ SomeErrored => (cli'.message # "successful" /\ cli'.exitCode # "0")

\* C22: errors are terminal.  Once a call of a transform has reported an
\* error, the transform delivers no further byte and is given no further
\* input, and the run never reports success: the success message is never
\* printed in a run in which a transform has failed.
C22_ErrorsTerminal ==
  /\ [](SomeErrored => cli.message # "successful")
  /\ [][ErrorsTerminalStep]_vars

\* A decoder failed with input still to come, and main has ended the run.
C22_Witness ==
  /\ SomeErrored /\ cli.pc = "exited"
  /\ \E t \in active : pending[t] # <<>>


\* ---- C23
\* The matches the while loop of _transform emits from e on: for each, the
\* search buffer and the look-ahead it was found in and the offset and the
\* length pushed.
RECURSIVE LZCMatchSites(_)
LZCMatchSites(e) ==
  LET e1 == LZC_fillLookahead(e)
  IN IF Len(e1.lookaheadBuffer) = 0 THEN {}
     ELSE LET match == LZC_findBestMatch(e1)
              e2 == IF match.length >= MIN_MATCH_LENGTH
                    THEN EncodeMatch(e1, match)
                    ELSE EncodeLiteral(e1)
              e3 == LZC_fillLookahead(e2)
              n == Len(e2.pushed)
              here == IF match.length >= MIN_MATCH_LENGTH
                      THEN {[sb |-> e1.searchBuffer, la |-> e1.lookaheadBuffer,
                             offset |-> e2.pushed[n - 1], length |-> e2.pushed[n]]}
                      ELSE {}
          IN IF e2.state = "errored" THEN here
             ELSE IF Len(e3.lookaheadBuffer) = 0 /\ Len(e3.inputBuffer) = 0
                  THEN here
                  ELSE here \cup LZCMatchSites(e3)

\* The matches emitted by _transform called on e with chunk.
LZCFeedSites(e, chunk) ==
  LZCMatchSites([LZC_maybeWriteMagicByte(e) EXCEPT !.inputBuffer = @ \o chunk])

\* The length of the match of the look-ahead at index i of the search buffer.
MatchLengthAt(s, i) == CurrentLength(s.sb, s.la, i, 0)

\* The indices of the search buffer at which the match is the longest.
LongestAt(s) ==
  {i \in 0..(Len(s.sb) - 1) :
     \A j \in 0..(Len(s.sb) - 1) : MatchLengthAt(s, j) <= MatchLengthAt(s, i)}

\* The token of s has the longest length, at the largest index that has it.
IsTieBroken(s) ==
  \E i \in LongestAt(s) :
     /\ s.length = MatchLengthAt(s, i)
     /\ s.offset = Len(s.sb) - i
     /\ \A j \in LongestAt(s) : j <= i

\* The chunk a step has given to the encoder.
LZCFed == Take(pending.lzc, Len(pending.lzc) - Len(pending'.lzc))

\* C23: the tie-break of the LZ77 encoder.  Every Match a feed emits has the
\* maximum match length over all start indices of the search buffer, and
\* its offset is the one of the largest index that achieves the maximum,
\* the smallest offset among the matches of that length.
C23_LZTieBreak ==
  [][(lzc.state = "open" /\ Len(pending'.lzc) < Len(pending.lzc))
       => \A s \in LZCFeedSites(lzc, LZCFed) : IsTieBroken(s)]_vars

\* The whole input was fed in one call and a match was emitted where two
\* or more indices of the search buffer have the longest match.
C23_Witness ==
  /\ "lzc" \in active /\ chunks.lzc = 1 /\ pending.lzc = <<>> /\ orig # <<>>
  /\ \E s \in LZCFeedSites(LZCompressNew, orig) :
        /\ Cardinality(LongestAt(s)) >= 2
        /\ s.offset < Len(s.sb)


\* ---- C24
\* The fields of the first transform of class t.
InstOf(t) ==
  CASE t = "lzc" -> lzc [] t = "lzd" -> lzd [] t = "rlec" -> rlec [] t = "rled" -> rled

\* What a transform of class t that runs alone can be: its fields s and the
\* input still to come, after any number of feeds and then the finish.
RECURSIVE SoloReach(_, _, _)
SoloReach(t, s, rest) ==
  {[inst |-> s, rest |-> rest]}
  \cup (IF s.state # "open" THEN {}
        ELSE IF rest = <<>> THEN {[inst |-> FlushOf(t, s), rest |-> rest]}
        ELSE UNION {SoloReach(t, TransformOf(t, s, Take(rest, k)), Drop(rest, k)) :
                      k \in ChunkSizes(rest)})

\* C24: instance isolation.  With the feed and finish calls of two
\* transforms of any classes interleaved in any order, each transform is at
\* every moment as a transform of its class can be that runs alone on the
\* same input: all its fields, the chunks it has pushed and its outcome
\* included.
C24_InstanceIsolation ==
  /\ \A t \in active :
       [inst |-> InstOf(t), rest |-> pending[t]] \in SoloReach(t, NewOf(t), orig)
  /\ twin.class \in Classes =>
       [inst |-> twin.inst, rest |-> twin.pending]
          \in SoloReach(twin.class, NewOf(twin.class), twin.orig)

\* Two transforms of the same class have both ended, on different inputs
\* and with different outputs or outcomes, the first fed in two chunks or
\* more.
C24_Witness ==
  /\ twin.class \in active
  /\ twin.orig # orig
  /\ twin.inst.state # "open" /\ InstOf(twin.class).state # "open"
  /\ twin.inst # InstOf(twin.class)
  /\ chunks[twin.class] >= 2


\* ---- C25
\* main was asked to decompress without --rle and without --lz, and has
\* chosen what to do.
HintlessDecompress ==
  /\ cli.command = "decompress" /\ ~cli.rle /\ ~cli.lz
  /\ cli.pc # "start" /\ orig # <<>>

\* C25: auto-detection.  A decompress request without an algorithm hint is
\* routed by the first byte of the compressed file: 0x52 constructs the RLE
\* decoder, 0x4C the LZ77 decoder, and with any other first byte no decoder
\* is constructed and the run fails.
C25_AutoDetection ==
  HintlessDecompress =>
    IF orig[1] = RLE_MAGIC THEN active = {"rled"}
    ELSE IF orig[1] = LZ_MAGIC THEN active = {"lzd"}
    ELSE active = {} /\ cli.exitCode = "1"


C27_WindowCapacity ==
  /\ Len(lzc.searchBuffer) <= WINDOW_SIZE
  /\ Len(lzd.historyBuffer) <= WINDOW_SIZE

\* Both windows are full after more than WINDOW_SIZE bytes went through
\* each of them.
C27_Witness ==
  /\ Len(lzc.searchBuffer) = WINDOW_SIZE /\ Len(orig) > WINDOW_SIZE
  /\ lzc.state = "finished"
  /\ Len(lzd.historyBuffer) = WINDOW_SIZE /\ Len(lzd.pushed) > WINDOW_SIZE


\* ---- C28
\* The last n bytes of s, all of s when it has fewer.
LastN(s, n) == SubSeq(s, Len(s) - Min(n, Len(s)) + 1, Len(s))

\* The number of input bytes the tokens of body stand for: one for a
\* literal, its length for a match.
RECURSIVE TokenBytes(_)
TokenBytes(body) ==
  IF Len(body) < 2 THEN 0
  ELSE IF body[1] = LITERAL_FLAG THEN 1 + TokenBytes(Drop(body, 2))
  ELSE IF Len(body) < 3 THEN 0
  ELSE body[3] + TokenBytes(Drop(body, 3))

\* The input bytes the encoder has encoded so far.
LZCEncoded ==
  IF lzc.wroteMagicByte THEN Take(orig, TokenBytes(Tail(lzc.pushed))) ELSE <<>>

\* C28: the window content.  After every token, the search buffer of the
\* LZ77 encoder is the last min(20, k) of the k input bytes encoded so far,
\* and the history buffer of the LZ77 decoder is the last min(20, n) of the
\* n bytes emitted so far, in the same order: the oldest byte is evicted
\* first.
C28_WindowContent ==
  /\ "lzc" \in active => lzc.searchBuffer = LastN(LZCEncoded, WINDOW_SIZE)
  /\ ("lzd" \in active /\ lzd.error # "index")
       => lzd.historyBuffer = LastN(lzd.pushed, WINDOW_SIZE)

\* Both windows have evicted bytes: more than WINDOW_SIZE bytes were
\* encoded, and decoded without error, and the windows no longer start as
\* the data does.
C28_Witness ==
  /\ lzc.state = "finished" /\ Len(LZCEncoded) > WINDOW_SIZE
  /\ lzc.searchBuffer # Take(orig, WINDOW_SIZE)
  /\ lzd.state = "finished" /\ Len(lzd.pushed) > WINDOW_SIZE
  /\ lzd.historyBuffer # Take(lzd.pushed, WINDOW_SIZE)


\* ---- C29
\* The bytes of its stream delivered to each decoder so far.
RLEDFed == Take(RLEDStream, Len(RLEDStream) - Len(pending.rled))

LZDFed == Take(LZDStream, Len(LZDStream) - Len(pending.lzd))

\* The number of bytes the whole tokens at the start of body take: two for
\* a literal, three for a match; the count stops at a token that is cut
\* short and at a byte that is no flag.
RECURSIVE WholeTokens(_)
WholeTokens(body) ==
  IF body = <<>> THEN 0
  ELSE IF body[1] = LITERAL_FLAG /\ Len(body) >= 2
       THEN 2 + WholeTokens(Drop(body, 2))
  ELSE IF body[1] = MATCH_FLAG /\ Len(body) >= 3
       THEN 3 + WholeTokens(Drop(body, 3))
  ELSE 0

\* C29: the pending residue.  After every feed that reported no error, the
\* RLE decoder keeps at most 1 input byte and the LZ77 decoder at most 2,
\* and what is kept is what was delivered after the last whole pair or
\* token: the value byte of the next pair, or the flag byte of the next
\* token with the offset byte of a match if it has come.
C29_PendingResidue ==
  /\ ("rled" \in active /\ rled.state = "open" /\ chunks.rled > 0)
       => /\ Len(rled.buffer) <= 1
          /\ rled.buffer = Drop(RLEDFed, 1 + 2 * ((Len(RLEDFed) - 1) \div 2))
  /\ ("lzd" \in active /\ lzd.state = "open" /\ chunks.lzd > 0)
       => /\ Len(lzd.buffer) <= 2
          /\ lzd.buffer = Drop(LZDFed, 1 + WholeTokens(Tail(LZDFed)))
          /\ lzd.buffer # <<>>
               => \/ lzd.buffer = <<LITERAL_FLAG>>
                  \/ lzd.buffer[1] = MATCH_FLAG

\* The LZ77 decoder has decoded a token or more and keeps the flag and the
\* offset of a match whose length has not come yet, after two feeds or more.
C29_Witness ==
  /\ "lzd" \in active /\ lzd.state = "open" /\ chunks.lzd >= 2
  /\ lzd.pushed # <<>>
  /\ Len(lzd.buffer) = 2 /\ lzd.buffer[1] = MATCH_FLAG
  /\ pending.lzd # <<>>


\* ---- C30
\* x is the magic byte followed by whole pairs, each with a count of 1 or
\* more.
IsPairedStream(x) ==
  /\ x # <<>> /\ x[1] = RLE_MAGIC /\ Len(x) % 2 = 1
  /\ \A p \in 1..((Len(x) - 1) \div 2) : x[2 * p + 1] \in 1..255

\* What the pairs of body stand for: for each pair in order, count copies
\* of its value.
RECURSIVE ExpandPairs(_)
ExpandPairs(body) ==
  IF Len(body) < 2 THEN <<>>
  ELSE [i \in 1..body[2] |-> body[1]] \o ExpandPairs(Drop(body, 2))

\* The sum of the counts of the pairs of body.
RECURSIVE CountsSum(_)
CountsSum(body) ==
  IF Len(body) < 2 THEN 0 ELSE body[2] + CountsSum(Drop(body, 2))

\* C30: RLE decode expansion.  On a stream made of the magic byte and whole
\* pairs with counts in 1..255, canonical or not, the RLE decoder reports no
\* error, and once it has finished it has delivered, in pair order, count
\* copies of the value of each pair: as many bytes as the sum of the
\* counts.
C30_RLEDecodeExpansion ==
  ("rled" \in active /\ IsPairedStream(orig))
    => /\ rled.state # "errored"
       /\ rled.state = "finished"
            => /\ rled.pushed = ExpandPairs(Tail(orig))
               /\ Len(rled.pushed) = CountsSum(Tail(orig))

\* The decoder has finished on a stream that no encoder writes: two pairs
\* with the same value one after the other, one with the count 255, fed in
\* two chunks or more.
C30_Witness ==
  /\ "rled" \in active /\ IsPairedStream(orig) /\ rled.state = "finished"
  /\ chunks.rled >= 2 /\ Len(orig) >= 5
  /\ orig[2] = orig[4] /\ orig[3] = 255
  /\ Len(rled.pushed) > 255


\* ---- C31
\* The steps of the while loop of _transform from e on: for each, the search
\* buffer and the look-ahead it started with and the token it pushed.
RECURSIVE LZCStepSites(_)
LZCStepSites(e) ==
  LET e1 == LZC_fillLookahead(e)
  IN IF Len(e1.lookaheadBuffer) = 0 THEN {}
     ELSE LET match == LZC_findBestMatch(e1)
              e2 == IF match.length >= MIN_MATCH_LENGTH
                    THEN EncodeMatch(e1, match)
                    ELSE EncodeLiteral(e1)
              e3 == LZC_fillLookahead(e2)
              here == {[sb |-> e1.searchBuffer, la |-> e1.lookaheadBuffer,
                        token |-> Drop(e2.pushed, Len(e1.pushed))]}
          IN IF e2.state = "errored" THEN here
             ELSE IF Len(e3.lookaheadBuffer) = 0 /\ Len(e3.inputBuffer) = 0
                  THEN here
                  ELSE here \cup LZCStepSites(e3)

\* The steps of _transform called on e with chunk.
LZCFeedSteps(e, chunk) ==
  LZCStepSites([LZC_maybeWriteMagicByte(e) EXCEPT !.inputBuffer = @ \o chunk])

\* The lengths of the common prefixes of the look-ahead and the search
\* buffer from each of its indices on, none running past its end.
PrefixLengths(s) == {MatchLengthAt(s, i) : i \in 0..(Len(s.sb) - 1)}

\* The step had a match to take: three bytes or more in the look-ahead and
\* a common prefix of three or more.
HasMatch(s) ==
  /\ Len(s.la) >= 3
  /\ \E l \in PrefixLengths(s) : l >= 3

\* The token of the step is the greedy one.
IsGreedy(s) ==
  IF HasMatch(s)
  THEN /\ Len(s.token) = 3 /\ s.token[1] = MATCH_FLAG
       /\ s.token[3] \in PrefixLengths(s)
       /\ \A l \in PrefixLengths(s) : l <= s.token[3]
  ELSE s.token = <<LITERAL_FLAG, s.la[1]>>

\* C31: the greedy match selection of the LZ77 encoder.  At every step of
\* a feed the encoder pushes a Match exactly when the look-ahead holds 3
\* bytes or more and some index of the search buffer has a common prefix
\* of 3 or more with it; the length is the longest such prefix; otherwise
\* it pushes a Literal for the front byte of the look-ahead.
C31_LZGreedyMatch ==
  [][(lzc.state = "open" /\ Len(pending'.lzc) < Len(pending.lzc))
       => \A s \in LZCFeedSteps(lzc, LZCFed) : IsGreedy(s)]_vars

\* The whole input was fed in one call, and among its steps are a match, a
\* literal pushed with a common prefix of two bytes at hand, and a literal
\* pushed with a look-ahead of fewer than three bytes.
C31_Witness ==
  /\ "lzc" \in active /\ chunks.lzc = 1 /\ pending.lzc = <<>> /\ orig # <<>>
  /\ \E s \in LZCFeedSteps(LZCompressNew, orig) : HasMatch(s)
  /\ \E s \in LZCFeedSteps(LZCompressNew, orig) :
        Len(s.la) >= 3 /\ 2 \in PrefixLengths(s) /\ ~HasMatch(s)
  /\ \E s \in LZCFeedSteps(LZCompressNew, orig) : Len(s.la) < 3


\* ---- C32
\* The iterations of the while loop of _transform from e on, in order: the
\* encoder after the look-ahead was filled and after the token was pushed.
RECURSIVE LZCLoopTrace(_)
LZCLoopTrace(e) ==
  LET e1 == LZC_fillLookahead(e)
  IN IF Len(e1.lookaheadBuffer) = 0 THEN <<>>
     ELSE LET match == LZC_findBestMatch(e1)
              e2 == IF match.length >= MIN_MATCH_LENGTH
                    THEN EncodeMatch(e1, match)
                    ELSE EncodeLiteral(e1)
              e3 == LZC_fillLookahead(e2)
              here == <<[before |-> e1, after |-> e2]>>
          IN IF e2.state = "errored" THEN here
             ELSE IF Len(e3.lookaheadBuffer) = 0 /\ Len(e3.inputBuffer) = 0
                  THEN here
                  ELSE here \o LZCLoopTrace(e3)

\* The encoder as _transform has it when its loop starts on chunk.
LZCLoopStart(e, chunk) ==
  [LZC_maybeWriteMagicByte(e) EXCEPT !.inputBuffer = @ \o chunk]

\* The bytes an iteration took from the look-ahead, and the token it pushed.
Removed(it) == Len(it.before.lookaheadBuffer) - Len(it.after.lookaheadBuffer)

Pushed(it) == Drop(it.after.pushed, Len(it.before.pushed))

\* An iteration takes 1 byte for a literal and the length, 3 or more, for a
\* match.
MakesProgress(it) ==
  IF Pushed(it)[1] = LITERAL_FLAG THEN Removed(it) = 1
  ELSE Removed(it) = Pushed(it)[3] /\ Removed(it) >= 3

\* The bytes the encoder holds that are not encoded yet.
Unencoded(e) == Len(e.lookaheadBuffer) + Len(e.inputBuffer)

\* C32: the progress of the LZ77 encoder.  Every iteration of the loop of
\* _transform takes at least one byte from the look-ahead, 1 for a Literal
\* and the length, 3 or more, for a Match, so the loop of a feed makes no
\* more iterations than the encoder holds bytes and the call returns; the
\* loop of _flush pushes one literal for each byte left and the call
\* returns.
C32_LZEncoderProgress ==
  [][/\ (lzc.state = "open" /\ Len(pending'.lzc) < Len(pending.lzc))
          => LET start == LZCLoopStart(lzc, LZCFed)
                 tr == LZCLoopTrace(start)
             IN /\ \A i \in 1..Len(tr) : MakesProgress(tr[i])
                /\ Len(tr) <= Unencoded(start)
                /\ lzc'.state = "open"
     /\ (lzc.state = "open" /\ lzc'.state # "open" /\ pending'.lzc = pending.lzc)
          => /\ lzc'.state = "finished"
             /\ Len(lzc'.pushed)
                  = Len(LZC_maybeWriteMagicByte(lzc).pushed) + 2 * Unencoded(lzc)
    ]_vars

\* The encoder has finished after one feed of more than WINDOW_SIZE bytes
\* whose loop pushed literals and matches.
C32_Witness ==
  /\ "lzc" \in active /\ chunks.lzc = 1 /\ lzc.state = "finished"
  /\ Len(orig) > WINDOW_SIZE
  /\ LET tr == LZCLoopTrace(LZCLoopStart(LZCompressNew, orig))
     IN /\ \E i \in 1..Len(tr) : Pushed(tr[i])[1] = MATCH_FLAG
        /\ \E i \in 1..Len(tr) : Pushed(tr[i])[1] = LITERAL_FLAG
        /\ Len(tr) < Len(orig)


\* ---- C33
\* C33: the LZ77 encoder drains its input on every feed.  When a feed has
\* returned, the look-ahead buffer and the input buffer are empty: every
\* byte fed so far is part of a token pushed.  The finish then pushes no
\* token, and the magic byte only if no feed has written it.
C33_LZEncoderDrains ==
  /\ []("lzc" \in active
          => /\ lzc.lookaheadBuffer = <<>> /\ lzc.inputBuffer = <<>>
             /\ lzc.wroteMagicByte
                  => TokenBytes(Tail(lzc.pushed)) = Len(orig) - Len(pending.lzc))
  /\ [][(lzc.state = "open" /\ lzc'.state = "finished")
          => lzc'.pushed
               = lzc.pushed \o (IF lzc.wroteMagicByte THEN <<>> ELSE <<LZ_MAGIC>>)
       ]_vars

\* The encoder has finished after two feeds or more of an input longer
\* than the look-ahead can hold, the last feed shorter than a match.
C33_Witness ==
  /\ "lzc" \in active /\ lzc.state = "finished" /\ chunks.lzc >= 2
  /\ Len(orig) > MAX_MATCH_LENGTH
  /\ TokenBytes(Tail(lzc.pushed)) = Len(orig)
  /\ lzc.pushed[Len(lzc.pushed) - 1] = LITERAL_FLAG


\* ---- C34
\* C34 as stated: the bytes the LZ77 encoder pushes for an input are the
\* same for every partition of the input into chunks, those of the input
\* fed as one chunk.
C34_LZChunkIndependence ==
  ("lzc" \in active /\ lzc.state = "finished")
    => lzc.pushed = LZCOneShot(orig).pushed

\* C34, amended: the output of the LZ77 encoder depends on the partition
\* only in how it cuts the input into tokens.  For every input and every
\* partition the output is the magic byte and tokens that stand for the
\* input, byte for byte and so in length too, each match copying from
\* `offset` places back; it has the bytes of the one-chunk output when the
\* input is fed as one chunk or has fewer than 2 * MIN_MATCH_LENGTH bytes.
C34_LZChunkingAmended ==
  ("lzc" \in active /\ lzc.state = "finished")
    => /\ lzc.pushed[1] = LZ_MAGIC
       /\ IsLZTokens(Tail(lzc.pushed))
       /\ TokenBytes(Tail(lzc.pushed)) = Len(orig)
       /\ RefLZ(Tail(lzc.pushed), <<>>) = orig
       /\ (chunks.lzc <= 1 \/ Len(orig) < 2 * MIN_MATCH_LENGTH)
            => lzc.pushed = LZCOneShot(orig).pushed

\* The encoder has finished on an input fed in two chunks or more, with
\* other bytes than for the same input fed as one chunk.
C34_Witness ==
  /\ "lzc" \in active /\ lzc.state = "finished" /\ chunks.lzc >= 2
  /\ lzc.pushed # LZCOneShot(orig).pushed
  /\ RefLZ(Tail(lzc.pushed), <<>>) = orig


\* ---- C35
\* The bytes of orig delivered to the RLE encoder so far.
RLECFed == Take(orig, Len(orig) - Len(pending.rlec))

\* A new RLE encoder given all of S as one chunk, S not empty.
RLECOneChunk(S) ==
  IF S = <<>> THEN RLECompressNew ELSE RLECompressTransform(RLECompressNew, S)

C36_LZNoOverlappingMatch ==
  [][(lzc.state = "open" /\ Len(pending'.lzc) < Len(pending.lzc))
       => \A s \in LZCFeedSites(lzc, LZCFed) :
             /\ MIN_MATCH_LENGTH <= s.length
             /\ s.length <= s.offset
             /\ s.offset <= Len(s.sb)
             /\ Len(s.sb) <= WINDOW_SIZE]_vars

\* The whole input was fed in one call; a match was pushed whose length is
\* its offset with more of the same bytes in the look-ahead, so that a
\* longer match would overlap itself, and a match was pushed with a full
\* search buffer.
C36_Witness ==
  /\ "lzc" \in active /\ chunks.lzc = 1 /\ pending.lzc = <<>> /\ orig # <<>>
  /\ \E s \in LZCFeedSites(LZCompressNew, orig) :
        /\ s.length = s.offset
        /\ Len(s.la) > s.length
        /\ s.la[s.length + 1] = s.la[1]
  /\ \E s \in LZCFeedSites(LZCompressNew, orig) : Len(s.sb) = WINDOW_SIZE


\* ---- C37
\* C37: decoding the output of the LZ77 encoder never fails and keeps the
\* length.  For every input and every chunking of the encoding and of the
\* decoding, the LZ77 decoder given what the encoder produced reports no
\* error of any kind, and when it has finished it has delivered as many
\* bytes as the input has.
C37_LZDecodeOfEncoded ==
  "lzd" \in active
    => /\ lzd.state # "errored" /\ lzd.error = "none"
       /\ lzd.state = "finished" => Len(lzd.pushed) = Len(orig)

\* Encoder and decoder were each fed in two chunks or more and the decoder
\* has finished, with matches decoded from a full history: it has
\* delivered as many bytes as the input has, and not the bytes of the
\* input.
C37_Witness ==
  /\ "lzd" \in active /\ lzd.state = "finished"
  /\ chunks.lzc >= 2 /\ chunks.lzd >= 2
  /\ Len(lzd.pushed) = Len(orig) /\ Len(orig) > WINDOW_SIZE
  /\ lzd.pushed # orig


\* ---- C38
\* The last place of the maximal run of S that place i is in, for i at the
\* start of the run.
RunEndFrom(S, i) ==
  LET ends == {k \in i..Len(S) : k = Len(S) \/ S[k + 1] # S[k]}
  IN CHOOSE k \in ends : \A m \in ends : k <= m

\* The number of pairs of an encoding of S from place i on, a start of a
\* maximal run, with ceil(n / 255) pairs for each maximal run of n bytes.
RECURSIVE CanonicalPairsFrom(_, _)
CanonicalPairsFrom(S, i) ==
  IF i > Len(S) THEN 0
  ELSE LET e == RunEndFrom(S, i)
       IN ((e - i + 1) + 254) \div 255 + CanonicalPairsFrom(S, e + 1)

CanonicalPairs(S) == CanonicalPairsFrom(S, 1)

EndedUnfed(t, inst) ==
  t \in active /\ chunks[t] = 0 /\ pending[t] = <<>> /\ inst.state # "open"

\* C39: the compressed stream of zero bytes.  A decoder, RLE or LZ77, whose
\* input ended before any byte arrived, so that it never saw a magic byte,
\* has finished without an error and has delivered no output.
C39_ZeroByteStream ==
  /\ EndedUnfed("lzd", lzd)
       => /\ lzd.state = "finished" /\ lzd.error = "none"
          /\ lzd.pushed = <<>> /\ ~lzd.checkedMagicByte
  /\ EndedUnfed("rled", rled)
       => /\ rled.state = "finished" /\ rled.error = "none"
          /\ rled.pushed = <<>> /\ ~rled.checkedMagicByte

\* The LZ77 decoder was given the file of zero bytes and its _flush has run.
C39_Witness ==
  /\ orig = <<>> /\ EndedUnfed("lzd", lzd)
  /\ lzd.state = "finished" /\ lzd.pushed = <<>>

\* The same for the RLE decoder.
C39_WitnessRLE ==
  /\ orig = <<>> /\ EndedUnfed("rled", rled)
  /\ rled.state = "finished" /\ rled.pushed = <<>>

====
